---------------------------- MODULE Spec2Model ----------------------------
(***************************************************************************)
(* MindTrack risk-assessment engine.                                       *)
(*                                                                         *)
(* The questionnaire scorer, the risk classifier and the factor and        *)
(* recommendation generator of app/routes/questionnaire.py, and the        *)
(* feature preparation of ml/model.py.                                     *)
(*                                                                         *)
(* Representation of Python values:                                        *)
(*  - a dict is a function whose DOMAIN is the set of keys present;        *)
(*  - in a questionnaire dict an int field is an integer, a bool field a   *)
(*    BOOLEAN, and the float field hours_sleep is carried in units of      *)
(*    1/Scale hour (65 is 6.5 h), so that the comparison `sleep < 6` reads *)
(*    sleep < 6 * Scale;                                                   *)
(*  - a raw value handed to prepare_features is tagged with its Python     *)
(*    type: [tag |-> "int", v |-> 3], [tag |-> "float", v |-> 75] (7.5, in *)
(*    units of 1/Scale), [tag |-> "bool", v |-> TRUE], [tag |-> "str",     *)
(*    v |-> <<121, 101, 115>>] (the characters' ASCII codes, "yes"),       *)
(*    [tag |-> "none", v |-> 0], [tag |-> "list", v |-> 0].                *)
(***************************************************************************)
EXTENDS Integers, Sequences, FiniteSets, TLC

VARIABLES
  pc,               \* position of the run: which call has returned
  data,             \* the questionnaire dict handed to the scorer (data.dict())
  risk_score,       \* calculate_risk_score's return value
  risk_level,       \* the level submit_questionnaire derives from it
  factors,          \* generate_prediction(...)["factors"]
  recommendations,  \* generate_prediction(...)["recommendations"]
  raw,              \* the raw dict handed to prepare_features
  outcome,          \* prepare_features' outcome: its array, or the exception raised
  outcome2,         \* the outcome of prepare_features on its own output
  predictions,      \* the predictions table, in insertion order (row i has id i)
  user_responses,   \* the user_responses table, in insertion order
  users,            \* the users table: user id -> the user's row
  user_progress,    \* the user_progress table, in insertion order
  now,              \* the clock read by datetime.utcnow()
  calls,            \* the submit_questionnaire calls: their input, position and locals
  request,          \* the request being answered, if one is
  fetched,          \* the list its query returned
  reply             \* the reply it is given

scorerVars == <<data, risk_score, risk_level, factors, recommendations,
                raw, outcome, outcome2>>

serviceVars == <<predictions, user_responses, users, user_progress, now, calls,
                 request, fetched, reply>>

vars == <<pc, data, risk_score, risk_level, factors, recommendations,
          raw, outcome, outcome2,
          predictions, user_responses, users, user_progress, now, calls,
          request, fetched, reply>>

(***************************************************************************)
(* The service at rest: empty tables, no call and no request yet.          *)
(***************************************************************************)
\* At most this many users are registered.
MaxUsers == 2

\* The ids the users table gives out within the bound.
Users == 1..MaxUsers

\* User(username, email, hashed_password, full_name): a users row, its id
\* its place in the table.  The columns the handlers compare or write are
\* carried.
NewUser(username, email, full_name) ==
  [username |-> username, email |-> email, full_name |-> full_name]

\* The username and the email the k-th explored signup asks for.
Username(k) == "user" \o ToString(k)
Email(k) == "user" \o ToString(k) \o "@example.org"

\* The users table after users 1 and 2 signed up.
RegisteredUsers == [u \in 1..2 |-> NewUser(Username(u), Email(u), "Student")]

NoRequest == [op |-> "none", user |-> 0, days |-> 0, limit |-> 0]

NoReply == [status |-> 0]

IdleService ==
  /\ predictions = <<>>
  /\ user_responses = <<>>
  /\ users = <<>>
  /\ user_progress = <<>>
  /\ now = 0
  /\ calls = <<>>
  /\ request = NoRequest
  /\ fetched = <<>>
  /\ reply = NoReply

(***************************************************************************)
(* Bounds of the explored inputs.                                          *)
(***************************************************************************)
\* A questionnaire dict differs from one of the base dicts in at most this many keys.
MaxChanged == 2
\* A raw dict differs from one of the raw base dicts in at most this many keys.
MaxRawChanged == 1

(***************************************************************************)
(* Program constants.                                                      *)
(***************************************************************************)
\* hours_sleep is a float: fixed-point units per hour.
Scale == 10

(***************************************************************************)
(* Python dicts.                                                           *)
(***************************************************************************)
EmptyDict == [k \in {} |-> 0]

\* d.get(k, default)
Get(d, k, default) == IF k \in DOMAIN d THEN d[k] ELSE default

(***************************************************************************)
(* QuestionnaireData: the fields of the questionnaire, in declaration      *)
(* order, and the values each may take.                                    *)
(***************************************************************************)
QuestionnaireFields ==
  << "feel_sad", "feel_lonely", "feel_confident", "feel_stressed",
     "feel_happy", "feel_angry", "hours_sleep", "minutes_physical_activity",
     "friends_count", "family_support", "school_belonging",
     "self_harm_ever", "bullied_recently", "stress_level", "anxiety_level" >>

FieldValues(k) ==
  CASE k \in {"feel_sad", "feel_lonely", "feel_confident", "feel_stressed",
              "feel_happy", "feel_angry", "family_support", "school_belonging"}
         -> <<1, 2, 3, 4, 5>>
    [] k = "hours_sleep"
         -> <<0, 59, 60, 65, 69, 70, 79, 80, 90, 120>>
    [] k = "minutes_physical_activity"
         -> <<0, 29, 30, 45, 59, 60, 90, 300>>
    [] k = "friends_count"
         -> <<0, 1, 2, 3, 4, 5>>
    [] k \in {"self_harm_ever", "bullied_recently"}
         -> <<FALSE, TRUE>>
    [] k \in {"stress_level", "anxiety_level"}
         -> <<1, 2, 3, 4, 5, 6, 7, 8, 9, 10>>

(***************************************************************************)
(* calculate_risk_score: the points each section adds to `score`, and the  *)
(* final clamp.                                                            *)
(***************************************************************************)
PyMax(a, b) == IF a >= b THEN a ELSE b
PyMin(a, b) == IF a <= b THEN a ELSE b

\* Emotional factors
emotional_points(d) ==
  LET negative_emotions == Get(d, "feel_sad", 1) + Get(d, "feel_lonely", 1)
                           + Get(d, "feel_stressed", 1) + Get(d, "feel_angry", 1)
      positive_emotions == Get(d, "feel_confident", 1) + Get(d, "feel_happy", 1)
  IN (negative_emotions - positive_emotions) * 2

\* Mutant: the first sleep threshold taken inclusively.
sleep_points_inclusive(d) ==
  LET sleep == Get(d, "hours_sleep", 8 * Scale)
  IN IF sleep <= 6 * Scale THEN 15
     ELSE IF sleep < 7 * Scale THEN 10
     ELSE IF sleep < 8 * Scale THEN 5
     ELSE 0

\* Sleep
sleep_points(d) ==
  LET sleep == Get(d, "hours_sleep", 8 * Scale)
  IN IF sleep < 6 * Scale THEN 15
     ELSE IF sleep < 7 * Scale THEN 10
     ELSE IF sleep < 8 * Scale THEN 5
     ELSE 0

\* Physical activity
activity_points(d) ==
  LET activity == Get(d, "minutes_physical_activity", 0)
  IN IF activity < 30 THEN 10
     ELSE IF activity < 60 THEN 5
     ELSE 0

\* Social factors: friends, then family support
social_points(d) ==
  LET friends == Get(d, "friends_count", 3)
      family_support == Get(d, "family_support", 3)
  IN (IF friends < 2 THEN 10 ELSE IF friends < 3 THEN 5 ELSE 0)
     + (IF family_support < 3 THEN 5 ELSE 0)

\* School belonging
belonging_points(d) ==
  LET belonging == Get(d, "school_belonging", 3)
  IN IF belonging < 3 THEN 10
     ELSE IF belonging < 4 THEN 5
     ELSE 0

\* Self-harm
self_harm_points(d) == IF Get(d, "self_harm_ever", FALSE) THEN 15 ELSE 0

\* Bullying
bullying_points(d) == IF Get(d, "bullied_recently", FALSE) THEN 10 ELSE 0

\* Mutant: stress and anxiety capped at the 5 points each the comment announces.
stress_anxiety_points_capped(d) ==
  PyMin(Get(d, "stress_level", 1) - 1, 5) + PyMin(Get(d, "anxiety_level", 1) - 1, 5)

\* Stress and anxiety
stress_anxiety_points(d) ==
  (Get(d, "stress_level", 1) - 1) + (Get(d, "anxiety_level", 1) - 1)

\* Mutant: the upper clamp forgotten.
clamp_score_no_upper(score) == PyMax(score, 0)

\* Mutant: the lower clamp forgotten.
clamp_score_no_lower(score) == PyMin(score, 100)

\* return min(max(score, 0), 100)
clamp_score(score) == PyMin(PyMax(score, 0), 100)

calculate_risk_score(d) ==
  clamp_score(emotional_points(d) + sleep_points(d) + activity_points(d)
              + social_points(d) + belonging_points(d) + self_harm_points(d)
              + bullying_points(d) + stress_anxiety_points(d))

(***************************************************************************)
(* The risk level submit_questionnaire derives from the score.             *)
(***************************************************************************)
\* Mutant: the first threshold taken inclusively.
classify_inclusive(score) ==
  IF score <= 30 THEN "Low"
  ELSE IF score < 60 THEN "Medium"
  ELSE "High"

\* Mutant: a fourth level at the top of the scale.
classify_with_severe(score) ==
  IF score < 30 THEN "Low"
  ELSE IF score < 60 THEN "Medium"
  ELSE IF score < 90 THEN "High"
  ELSE "Severe"

classify(score) ==
  IF score < 30 THEN "Low"
  ELSE IF score < 60 THEN "Medium"
  ELSE "High"

(***************************************************************************)
(* generate_prediction                                                     *)
(***************************************************************************)
\* One step of the checklist: `if cond: factors.append(label);
\* recommendations.append(r) for r in recs`.
Detect(acc, cond, label, recs) ==
  IF cond
    THEN [factors |-> Append(acc.factors, label),
          recommendations |-> acc.recommendations \o recs]
    ELSE acc

\* Mutant: the Medium branch forgotten, so Medium gets the Low pair.
GeneralRecommendations_no_medium(level) ==
  IF level = "High"
    THEN << "Consider scheduling an appointment with a mental health professional.",
            "Practice daily mindfulness or grounding exercises." >>
  ELSE << "Great job taking care of your mental health! Keep up the good work.",
          "Continue maintaining healthy habits and supporting others." >>

GeneralRecommendations(level) ==
  IF level = "High"
    THEN << "Consider scheduling an appointment with a mental health professional.",
            "Practice daily mindfulness or grounding exercises." >>
  ELSE IF level = "Medium"
    THEN << "Regular exercise and healthy sleep can help improve your mental health.",
            "Try keeping a mood journal to track your emotions." >>
  ELSE << "Great job taking care of your mental health! Keep up the good work.",
          "Continue maintaining healthy habits and supporting others." >>

\* Mutant: sadness detected only above 4.
sadness_detected_strict(d) == Get(d, "feel_sad", 1) > 4

\* if data.get("feel_sad", 1) >= 4
sadness_detected(d) == Get(d, "feel_sad", 1) >= 4

generate_prediction(score, level, d) ==
  LET a0 == [factors |-> <<>>, recommendations |-> <<>>]
      a1 == Detect(a0, Get(d, "hours_sleep", 8 * Scale) < 7 * Scale,
                   "Poor sleep patterns",
                   << "Try to get 7-9 hours of sleep each night. Establish a regular bedtime routine." >>)
      a2 == Detect(a1, Get(d, "minutes_physical_activity", 0) < 60,
                   "Low physical activity",
                   << "Aim for at least 60 minutes of physical activity per day. Even a 10-minute walk can help." >>)
      a3 == Detect(a2, sadness_detected(d),
                   "Feelings of sadness",
                   << "Consider talking to someone you trust about how you're feeling. Practice self-care activities." >>)
      a4 == Detect(a3, Get(d, "feel_stressed", 1) >= 4,
                   "High stress levels",
                   << "Try stress management techniques like deep breathing, meditation, or taking breaks." >>)
      a5 == Detect(a4, Get(d, "self_harm_ever", FALSE),
                   "History of self-harm",
                   << "Please consider reaching out to a mental health professional for support.",
                      "You can contact Samaritans helpline: 116 123" >>)
      a6 == Detect(a5, Get(d, "bullied_recently", FALSE),
                   "Recent bullying experience",
                   << "Speak to a trusted adult or teacher about what's happening.",
                      "Remember: it's not your fault, and help is available." >>)
      a7 == Detect(a6, Get(d, "family_support", 3) < 3,
                   "Limited family support",
                   << "Consider building support networks through friends, mentors, or school counselors." >>)
  IN [factors |-> a7.factors,
      recommendations |-> a7.recommendations \o GeneralRecommendations(level)]

(***************************************************************************)
(* The questionnaire dicts explored: each base dict, with at most          *)
(* MaxChanged of its keys given another value of the field or removed.     *)
(***************************************************************************)
\* Every field at its minimum-risk value.
MinRiskData ==
  [feel_sad |-> 1, feel_lonely |-> 1, feel_confident |-> 5, feel_stressed |-> 1,
   feel_happy |-> 5, feel_angry |-> 1, hours_sleep |-> 9 * Scale,
   minutes_physical_activity |-> 90, friends_count |-> 5, family_support |-> 5,
   school_belonging |-> 5, self_harm_ever |-> FALSE,
   self_harm_frequency |-> "Never", bullied_recently |-> FALSE,
   stress_level |-> 1, anxiety_level |-> 1]

\* Every field at its maximum-risk value.
MaxRiskData ==
  [feel_sad |-> 5, feel_lonely |-> 5, feel_confident |-> 1, feel_stressed |-> 5,
   feel_happy |-> 1, feel_angry |-> 5, hours_sleep |-> 0,
   minutes_physical_activity |-> 0, friends_count |-> 0, family_support |-> 1,
   school_belonging |-> 1, self_harm_ever |-> TRUE,
   self_harm_frequency |-> "Often", bullied_recently |-> TRUE,
   stress_level |-> 10, anxiety_level |-> 10]

\* stress, anxiety, self-harm, bullying, sleep and activity at their extremes,
\* every other field at its default.
ExtremeData ==
  [feel_sad |-> 1, feel_lonely |-> 1, feel_confident |-> 1, feel_stressed |-> 1,
   feel_happy |-> 1, feel_angry |-> 1, hours_sleep |-> 0,
   minutes_physical_activity |-> 0, friends_count |-> 3, family_support |-> 3,
   school_belonging |-> 3, self_harm_ever |-> TRUE,
   self_harm_frequency |-> "Never", bullied_recently |-> TRUE,
   stress_level |-> 10, anxiety_level |-> 10]

BaseData == {MinRiskData, MaxRiskData, ExtremeData, EmptyDict}

FieldIndex(k) == CHOOSE i \in 1..Len(QuestionnaireFields) : QuestionnaireFields[i] = k

MaxFieldValues == 10

ChangedKeys(n) ==
  {s \in SUBSET (1..Len(QuestionnaireFields)) : Cardinality(s) <= n}

\* `base` with the keys numbered in `ch` set to the alt[i]-th value of their
\* field, or removed where alt[i] = 0.
Changed(base, ch, alt) ==
  LET names == {QuestionnaireFields[i] : i \in ch}
      gone == {QuestionnaireFields[i] : i \in {j \in ch : alt[j] = 0}}
  IN [k \in (DOMAIN base \cup names) \ gone |->
        IF k \in names THEN FieldValues(k)[alt[FieldIndex(k)]] ELSE base[k]]

NoOutcome == [raised |-> FALSE, exc |-> "", array |-> <<>>]

InitScore ==
  /\ pc = "input"
  /\ \E base \in BaseData, ch \in ChangedKeys(MaxChanged) :
       \E alt \in [ch -> 0..MaxFieldValues] :
         /\ \A i \in ch : alt[i] <= Len(FieldValues(QuestionnaireFields[i]))
         /\ data = Changed(base, ch, alt)
  /\ risk_score = 0
  /\ risk_level = ""
  /\ factors = <<>>
  /\ recommendations = <<>>
  /\ raw = EmptyDict
  /\ outcome = NoOutcome
  /\ outcome2 = NoOutcome
  /\ IdleService

\* calculate_risk_score applied to the dict, the level of its score, and
\* generate_prediction applied to the three.  The functions take a dict and
\* no database session: no table is read or written.  (The handler that
\* calls them on data.dict() and commits their results is SubmitStoreResponse,
\* SubmitScore and SubmitStorePrediction below.)
Assess ==
  /\ pc = "input"
  /\ LET score == calculate_risk_score(data)
         level == classify(score)
         prediction == generate_prediction(score, level, data)
     IN /\ risk_score' = score
        /\ risk_level' = level
        /\ factors' = prediction.factors
        /\ recommendations' = prediction.recommendations
  /\ pc' = "assessed"
  /\ UNCHANGED <<data, raw, outcome, outcome2>>
  /\ UNCHANGED serviceVars

NextScore == Assess

SpecScore == InitScore /\ [][NextScore]_vars

(***************************************************************************)
(* MentalHealthPredictor.prepare_features                                  *)
(***************************************************************************)
feature_names ==
  << "feel_sad", "feel_lonely", "feel_confident", "feel_stressed",
     "feel_happy", "feel_angry", "hours_sleep", "minutes_physical_activity",
     "friends_count", "family_support", "school_belonging",
     "self_harm_ever", "bullied_recently", "stress_level", "anxiety_level" >>

PyInt(n) == [tag |-> "int", v |-> n]
PyFloat(tenths) == [tag |-> "float", v |-> tenths]
PyBool(b) == [tag |-> "bool", v |-> b]
PyStr(codes) == [tag |-> "str", v |-> codes]
PyNone == [tag |-> "none", v |-> 0]
PyList == [tag |-> "list", v |-> 0]

\* The string literals of prepare_features, as ASCII codes.
Str_never == <<110, 101, 118, 101, 114>>
Str_no == <<110, 111>>
Str_false == <<102, 97, 108, 115, 101>>
Str_rarely == <<114, 97, 114, 101, 108, 121>>
Str_sometimes == <<115, 111, 109, 101, 116, 105, 109, 101, 115>>
Str_often == <<111, 102, 116, 101, 110>>
Str_yes == <<121, 101, 115>>
Str_true == <<116, 114, 117, 101>>

\* str.lower(), on ASCII
PyLower(s) == [i \in 1..Len(s) |-> IF 65 <= s[i] /\ s[i] <= 90 THEN s[i] + 32 ELSE s[i]]

\* if isinstance(value, bool): value = int(value)
coerce_bool(value) ==
  IF value.tag = "bool" THEN PyInt(IF value.v THEN 1 ELSE 0) ELSE value

\* Mutant: the tokens compared without .lower().
coerce_str_case_sensitive(value) ==
  IF value.tag = "str"
    THEN IF value.v \in {Str_never, Str_no, Str_false} THEN PyInt(0)
         ELSE IF value.v \in {Str_rarely, Str_sometimes} THEN PyInt(1)
         ELSE IF value.v \in {Str_often, Str_yes, Str_true} THEN PyInt(2)
         ELSE PyInt(0)
    ELSE value

\* if isinstance(value, str): the three buckets of value.lower(), else 0
coerce_str(value) ==
  IF value.tag = "str"
    THEN IF PyLower(value.v) \in {Str_never, Str_no, Str_false} THEN PyInt(0)
         ELSE IF PyLower(value.v) \in {Str_rarely, Str_sometimes} THEN PyInt(1)
         ELSE IF PyLower(value.v) \in {Str_often, Str_yes, Str_true} THEN PyInt(2)
         ELSE PyInt(0)
    ELSE value

\* Mutant: the scales shifted to start at zero.
py_float_shifted(value) ==
  CASE value.tag = "int" -> [raised |-> FALSE, exc |-> "", value |-> (value.v - 1) * Scale]
    [] value.tag = "float" -> [raised |-> FALSE, exc |-> "", value |-> value.v - Scale]
    [] value.tag = "bool" ->
         [raised |-> FALSE, exc |-> "", value |-> IF value.v THEN 0 ELSE 0 - Scale]
    [] value.tag = "str" -> [raised |-> TRUE, exc |-> "ValueError", value |-> 0]
    [] OTHER -> [raised |-> TRUE, exc |-> "TypeError", value |-> 0]

\* float(value): the float of a number; float(None), float([...]) raise
\* TypeError.  (A str never reaches it: coerce_str has replaced it; the strings
\* explored are not numerals, on which float raises ValueError.)
py_float(value) ==
  CASE value.tag = "int" -> [raised |-> FALSE, exc |-> "", value |-> value.v * Scale]
    [] value.tag = "float" -> [raised |-> FALSE, exc |-> "", value |-> value.v]
    [] value.tag = "bool" ->
         [raised |-> FALSE, exc |-> "", value |-> IF value.v THEN Scale ELSE 0]
    [] value.tag = "str" -> [raised |-> TRUE, exc |-> "ValueError", value |-> 0]
    [] OTHER -> [raised |-> TRUE, exc |-> "TypeError", value |-> 0]

\* One turn of the loop: data.get(feature, 0), the two coercions, float().
prepare_value(d, feature) ==
  py_float(coerce_str(coerce_bool(Get(d, feature, PyInt(0)))))

\* The loop stops at the first feature whose float() raises; otherwise the
\* floats are returned as a 1 x 15 array.
prepare_features(d) ==
  LET results == [i \in 1..Len(feature_names) |-> prepare_value(d, feature_names[i])]
      failed == {i \in 1..Len(feature_names) : results[i].raised}
  IN IF failed # {}
       THEN LET first == CHOOSE i \in failed : \A j \in failed : i <= j
            IN [raised |-> TRUE, exc |-> results[first].exc, array |-> <<>>]
       ELSE [raised |-> FALSE, exc |-> "",
             array |-> << [i \in 1..Len(feature_names) |-> results[i].value] >>]

(***************************************************************************)
(* The raw dicts explored: each raw base dict, with at most MaxRawChanged  *)
(* of its keys given another raw value or removed.                         *)
(***************************************************************************)
\* "Never", "no", "FALSE", "rarely", "Sometimes", "often", "YES", "True",
\* "maybe", "yes " as raw values, with numbers, booleans, None and a list.
RawValues ==
  << PyInt(3), PyFloat(75), PyBool(TRUE), PyBool(FALSE),
     PyStr(<<78, 101, 118, 101, 114>>), PyStr(Str_no),
     PyStr(<<70, 65, 76, 83, 69>>), PyStr(Str_rarely),
     PyStr(<<83, 111, 109, 101, 116, 105, 109, 101, 115>>), PyStr(Str_often),
     PyStr(<<89, 69, 83>>), PyStr(<<84, 114, 117, 101>>),
     PyStr(<<109, 97, 121, 98, 101>>), PyStr(<<121, 101, 115, 32>>),
     PyNone, PyList >>

\* A questionnaire as data.dict() gives it.
RawNumeric ==
  [feel_sad |-> PyInt(4), feel_lonely |-> PyInt(2), feel_confident |-> PyInt(3),
   feel_stressed |-> PyInt(5), feel_happy |-> PyInt(1), feel_angry |-> PyInt(2),
   hours_sleep |-> PyFloat(65), minutes_physical_activity |-> PyInt(45),
   friends_count |-> PyInt(2), family_support |-> PyInt(3),
   school_belonging |-> PyInt(4), self_harm_ever |-> PyBool(FALSE),
   self_harm_frequency |-> PyStr(<<78, 101, 118, 101, 114>>),
   bullied_recently |-> PyBool(TRUE), stress_level |-> PyInt(7),
   anxiety_level |-> PyInt(10)]

\* Survey-style answers: frequency words, yes/no, booleans and numbers.
RawMixed ==
  [feel_sad |-> PyStr(Str_often), feel_lonely |-> PyStr(Str_rarely),
   feel_confident |-> PyStr(<<89, 69, 83>>), feel_stressed |-> PyInt(4),
   feel_happy |-> PyStr(<<83, 111, 109, 101, 116, 105, 109, 101, 115>>),
   feel_angry |-> PyStr(<<78, 101, 118, 101, 114>>),
   hours_sleep |-> PyFloat(75), minutes_physical_activity |-> PyInt(45),
   friends_count |-> PyInt(2), family_support |-> PyStr(<<109, 97, 121, 98, 101>>),
   school_belonging |-> PyStr(Str_true), self_harm_ever |-> PyBool(TRUE),
   bullied_recently |-> PyStr(Str_no), stress_level |-> PyInt(7),
   anxiety_level |-> PyBool(FALSE)]

RawBases == {EmptyDict, RawNumeric, RawMixed}

RawChanged(base, ch, alt) ==
  LET names == {feature_names[i] : i \in ch}
      gone == {feature_names[i] : i \in {j \in ch : alt[j] = 0}}
  IN [k \in (DOMAIN base \cup names) \ gone |->
        IF k \in names
          THEN RawValues[alt[CHOOSE i \in ch : feature_names[i] = k]]
          ELSE base[k]]

InitNormalize ==
  /\ pc = "raw"
  /\ \E base \in RawBases :
       \E ch \in {s \in SUBSET (1..Len(feature_names)) : Cardinality(s) <= MaxRawChanged} :
         \E alt \in [ch -> 0..Len(RawValues)] :
           raw = RawChanged(base, ch, alt)
  /\ outcome = NoOutcome
  /\ outcome2 = NoOutcome
  /\ data = EmptyDict
  /\ risk_score = 0
  /\ risk_level = ""
  /\ factors = <<>>
  /\ recommendations = <<>>
  /\ IdleService

\* predict_from_data: features = self.prepare_features(data)
PrepareFeatures ==
  /\ pc = "raw"
  /\ outcome' = prepare_features(raw)
  /\ pc' = "prepared"
  /\ UNCHANGED <<data, risk_score, risk_level, factors, recommendations, raw, outcome2>>
  /\ UNCHANGED serviceVars

\* prepare_features handed its own output (there is one only if the first
\* call returned): the output is an array, an array has no .get, and the
\* first turn of the loop raises AttributeError.
PrepareAgain ==
  /\ pc = "prepared"
  /\ ~outcome.raised
  /\ outcome2' = [raised |-> TRUE, exc |-> "AttributeError", array |-> <<>>]
  /\ pc' = "reprepared"
  /\ UNCHANGED <<data, risk_score, risk_level, factors, recommendations, raw, outcome>>
  /\ UNCHANGED serviceVars

NextNormalize == PrepareFeatures \/ PrepareAgain

SpecNormalize == InitNormalize /\ [][NextNormalize]_vars

(***************************************************************************)
(* The predictions table and the queries of app/routes/predictions.py.     *)
(*                                                                         *)
(* A Prediction row carries its primary key id, its owner user_id, the     *)
(* four assessment columns and created_at, the clock value at its insert.  *)
(* Time is counted in days, so that timedelta(days=days) is `days`.        *)
(***************************************************************************)
NewPrediction(id, user_id, level, score, fs, recs, at) ==
  [id |-> id, user_id |-> user_id, risk_level |-> level, risk_score |-> score,
   factors |-> fs, recommendations |-> recs, created_at |-> at]

\* Mutant: the owner filter forgotten.
in_window_any_user(p, user, start_date) == p.created_at >= start_date

\* filter(Prediction.user_id == current_user.id, Prediction.created_at >= start_date)
in_window(p, user, start_date) ==
  p.user_id = user /\ p.created_at >= start_date

\* filter(Prediction.user_id == current_user.id)
owned_by(p, user) == p.user_id = user

\* order_by(Prediction.created_at.asc()).all() over the rows numbered in
\* `ids`: every arrangement in which created_at never decreases.  Rows with
\* equal created_at come in an order the database chooses.
RECURSIVE AscendingOrders(_, _)
AscendingOrders(table, ids) ==
  IF ids = {} THEN {<<>>}
  ELSE LET first == {i \in ids : \A j \in ids : table[i].created_at <= table[j].created_at}
       IN UNION {{<<table[i]>> \o rest : rest \in AscendingOrders(table, ids \ {i})}
                 : i \in first}

\* order_by(Prediction.created_at.desc()).all()
RECURSIVE DescendingOrders(_, _)
DescendingOrders(table, ids) ==
  IF ids = {} THEN {<<>>}
  ELSE LET first == {i \in ids : \A j \in ids : table[i].created_at >= table[j].created_at}
       IN UNION {{<<table[i]>> \o rest : rest \in DescendingOrders(table, ids \ {i})}
                 : i \in first}

\* .limit(n).all() as SQLite answers it: the first n rows, and every row for
\* a negative n (a negative LIMIT is no limit).
PyLimit(list, n) ==
  IF n < 0 THEN list ELSE SubSeq(list, 1, PyMin(Len(list), n))

\* The databases of database.py: DATABASE_URL, or SQLite by default.
Databases == {"sqlite", "postgresql"}

\* An int of the query string.  Python's ints are unbounded: one within
\* the signed 64-bit range is carried as itself (the ones past the model's
\* integers behave as the greatest of them does), one outside that range by
\* its sign alone.
QueryInt(n) == [wide |-> FALSE, v |-> n]
WideQueryInt(sign) == [wide |-> TRUE, v |-> sign]

\* The LIMIT parameter cannot be bound or is refused: an int outside the
\* signed 64-bit range is no SQL integer (OverflowError on SQLite, out of
\* range on PostgreSQL), and PostgreSQL rejects a negative LIMIT.  The error
\* is not caught.
limit_rejected(database, limit) ==
  limit.wide \/ (database = "postgresql" /\ limit.v < 0)

\* The day the clock starts on (now = 0), 2026-01-01, counted as datetime
\* counts days: 0001-01-01 is day 1.
EpochOrdinal == 739617
\* datetime.min and datetime.max, in days.
MinOrdinal == 1
MaxOrdinal == 3652059
\* The greatest magnitude of a timedelta, in days.
MaxTimedeltaDays == 999999999

\* datetime.utcnow() - timedelta(days=days) raises OverflowError: the
\* timedelta cannot be built, or the date is not one datetime can hold.
start_date_overflows(time, days) ==
  \/ days > MaxTimedeltaDays
  \/ days < -MaxTimedeltaDays
  \/ EpochOrdinal + time - days < MinOrdinal
  \/ EpochOrdinal + time - days > MaxOrdinal

\* An exception no handler catches: the client is answered 500.
ServerError == [status |-> 500]

(***************************************************************************)
(* get_prediction_trends: the report computed from the fetched list.       *)
(***************************************************************************)
\* sum(xs), the list summed by halves.
RECURSIVE PySum(_)
PySum(xs) ==
  IF Len(xs) = 0 THEN 0
  ELSE IF Len(xs) = 1 THEN xs[1]
  ELSE PySum(SubSeq(xs, 1, Len(xs) \div 2))
       + PySum(SubSeq(xs, Len(xs) \div 2 + 1, Len(xs)))

\* Mutant: the last score compared with the one before it.
trend_direction_neighbours(scores) ==
  IF Len(scores) >= 2
    THEN IF scores[Len(scores)] < scores[Len(scores) - 1] THEN "improving"
         ELSE IF scores[Len(scores)] > scores[Len(scores) - 1] THEN "declining"
         ELSE "stable"
    ELSE "insufficient_data"

\* if len(scores) >= 2: ... scores[-1] < scores[0] ... else "insufficient_data"
trend_direction(scores) ==
  IF Len(scores) >= 2
    THEN IF scores[Len(scores)] < scores[1] THEN "improving"
         ELSE IF scores[Len(scores)] > scores[1] THEN "declining"
         ELSE "stable"
    ELSE "insufficient_data"

\* Mutant: the mean cut to 2 decimal places instead of rounded.
round_mean_truncated(total, n) == (100 * total) \div n

\* The quotient sum / len as the float holds it, when the exact mean is the
\* half q/200 (q odd) between two hundredths: the double nearest to q/200 is
\* q * 2^(49-e) / 25 rounded to an integer, in units of 2^(e-52), where
\* 2^e <= q/200 < 2^(e+1).  It is q/200 itself when 25 divides q, and lies
\* above or below q/200 as the remainder of q * 2^(49-e) by 25 does 25/2.
float_of_half(q) ==
  LET k == CHOOSE i \in 0..14 : 200 * 2^i <= 256 * q /\ 256 * q < 200 * 2^(i + 1)
      r == ((q % 25) * ((2^((57 - k) % 20)) % 25)) % 25
  IN IF r = 0 THEN "exact" ELSE IF r <= 12 THEN "below" ELSE "above"

\* round(sum(scores) / len(scores), 2), in hundredths.  round() returns the
\* hundredth nearest to the float it is given, and the even one for a float
\* that is exactly a half.  Off the halves the float's error (2^-53,
\* relatively) does not change the nearest hundredth; on a half the float
\* decides: 1/8 is held exactly and gives 0.12, 1/40 is held above 0.025 and
\* gives 0.03, 3/40 below 0.075 and gives 0.07.
round_mean(total, n) ==
  LET q == (200 * total) \div n
      lower == (q - 1) \div 2
  IN IF (200 * total) % n # 0 \/ q % 2 = 0
       THEN (200 * total + n) \div (2 * n)
       ELSE IF float_of_half(q) = "above" THEN lower + 1
       ELSE IF float_of_half(q) = "below" THEN lower
       ELSE IF lower % 2 = 0 THEN lower ELSE lower + 1

\* {"date": p.created_at.isoformat(), "score": p.risk_score, "level": p.risk_level};
\* the ISO text of a timestamp is carried as the timestamp.
DataPoint(p) == [date |-> p.created_at, score |-> p.risk_score, level |-> p.risk_level]

NoDataReport ==
  [message |-> "No data available for the selected period", trends |-> <<>>]

get_prediction_trends(rows) ==
  IF Len(rows) = 0
    THEN [status |-> 200, body |-> NoDataReport]
    ELSE LET scores == [i \in 1..Len(rows) |-> rows[i].risk_score]
         IN [status |-> 200,
             body |-> [average_score |-> round_mean(PySum(scores), Len(scores)),
                       trend |-> trend_direction(scores),
                       total_predictions |-> Len(rows),
                       data_points |-> [i \in 1..Len(rows) |-> DataPoint(rows[i])]]]

(***************************************************************************)
(* get_personalized_insights: the report computed from the sample, the     *)
(* caller's rows most recent first, cut to InsightLimit.                   *)
(***************************************************************************)
\* .limit(30)
InsightLimit == 30

\* risk_levels.count(level)
CountLevel(rows, level) == Cardinality({i \in 1..Len(rows) : rows[i].risk_level = level})

\* Mutant: half of the sample is enough.
high_risk_majority_inclusive(high_count, n) == 2 * high_count >= n

\* high_count > len(predictions) * 0.5
high_risk_majority(high_count, n) == 2 * high_count > n

\* The sums recent_sum of three scores for which the float comparison
\* recent_sum / 3 < (recent_sum + 30) / 3 - 10 is true: the two sides are
\* equal as reals, and differ by one rounding of IEEE-754 doubles.
FloatTieBelow ==
  {1, 4, 7, 10, 13, 16, 20, 23, 26, 29, 32, 35, 38, 41, 44, 47,
   67, 70, 73, 76, 79, 82, 85, 88, 91, 94,
   164, 167, 170, 173, 176, 179, 182, 185, 188, 191}

\* recent_avg < older_avg - 10, with recent_avg = recent_sum / 3 and
\* older_avg = older_sum / 3 computed in doubles: away from equality the
\* doubles compare as the reals do.
improvement_detected(recent_sum, older_sum) ==
  \/ recent_sum < older_sum - 30
  \/ recent_sum = older_sum - 30 /\ recent_sum \in FloatTieBelow

\* for p in predictions: if p.factors: all_factors.extend(p.factors)
\* (the rows taken by halves, in their order)
RECURSIVE collect_factors(_)
collect_factors(rows) ==
  IF Len(rows) = 0 THEN <<>>
  ELSE IF Len(rows) = 1
    THEN (IF Len(rows[1].factors) > 0 THEN rows[1].factors ELSE <<>>)
  ELSE collect_factors(SubSeq(rows, 1, Len(rows) \div 2))
       \o collect_factors(SubSeq(rows, Len(rows) \div 2 + 1, Len(rows)))

\* Counter(xs): a dict in insertion order, here the sequence of its items:
\* the keys in the order of their first occurrence in xs, each with the
\* number of its occurrences.
Counter(xs) ==
  LET firsts == {i \in 1..Len(xs) : \A j \in 1..(i - 1) : xs[j] # xs[i]}
      nth(k) == CHOOSE i \in firsts : Cardinality({j \in firsts : j < i}) = k - 1
  IN [k \in 1..Cardinality(firsts) |->
        [key |-> xs[nth(k)],
         count |-> Cardinality({j \in 1..Len(xs) : xs[j] = xs[nth(k)]})]]

\* Mutant: an item placed before the items of equal count.
InsertByCount_before_ties(sorted, e) ==
  LET k == Cardinality({i \in 1..Len(sorted) : sorted[i].count > e.count})
  IN SubSeq(sorted, 1, k) \o <<e>> \o SubSeq(sorted, k + 1, Len(sorted))

\* One step of the stable sort by descending count: the item goes after
\* every item whose count is at least its own.
InsertByCount(sorted, e) ==
  LET k == Cardinality({i \in 1..Len(sorted) : sorted[i].count >= e.count})
  IN SubSeq(sorted, 1, k) \o <<e>> \o SubSeq(sorted, k + 1, Len(sorted))

RECURSIVE SortedByCount(_, _)
SortedByCount(sorted, items) ==
  IF Len(items) = 0 THEN sorted
  ELSE SortedByCount(InsertByCount(sorted, items[1]), Tail(items))

\* Counter.most_common(n): the n items of highest count, items of equal
\* count in the order first encountered.
most_common(counter, n) == PyLimit(SortedByCount(<<>>, counter), n)

\* sep.join(list)
RECURSIVE PyJoin(_, _)
PyJoin(sep, list) ==
  IF Len(list) = 0 THEN ""
  ELSE IF Len(list) = 1 THEN list[1]
  ELSE list[1] \o sep \o PyJoin(sep, Tail(list))

WarningInsight ==
  [type |-> "warning", title |-> "Consistently High Risk",
   message |-> "You've been experiencing high risk levels frequently. Consider seeking professional support."]

PositiveInsight ==
  [type |-> "positive", title |-> "Great Progress!",
   message |-> "Your risk scores have been improving. Keep up the good work!"]

InfoInsight(common_factors) ==
  [type |-> "info", title |-> "Common Challenges",
   message |-> "Most common factors: "
               \o PyJoin(", ", [i \in 1..Len(common_factors) |-> common_factors[i].key])]

NoInsightsReport ==
  [insights |-> <<>>,
   message |-> "Complete questionnaires to receive personalized insights"]

get_personalized_insights(rows) ==
  IF Len(rows) = 0
    THEN [status |-> 200, body |-> NoInsightsReport]
    ELSE LET n == Len(rows)
             high_count == CountLevel(rows, "High")
             medium_count == CountLevel(rows, "Medium")
             low_count == CountLevel(rows, "Low")
             scores == [i \in 1..n |-> rows[i].risk_score]
             warning == IF high_risk_majority(high_count, n)
                          THEN <<WarningInsight>> ELSE <<>>
             positive == IF n >= 3
                              /\ improvement_detected(PySum(SubSeq(scores, 1, 3)),
                                                      PySum(SubSeq(scores, n - 2, n)))
                           THEN <<PositiveInsight>> ELSE <<>>
             all_factors == collect_factors(rows)
             info == IF Len(all_factors) > 0
                       THEN <<InfoInsight(most_common(Counter(all_factors), 3))>>
                       ELSE <<>>
         IN [status |-> 200,
             body |-> [insights |-> warning \o positive \o info,
                       summary |-> [total_assessments |-> n,
                                    high_risk_count |-> high_count,
                                    medium_risk_count |-> medium_count,
                                    low_risk_count |-> low_count]]]

(***************************************************************************)
(* The read handlers of app/routes/predictions.py.  Each leaves the        *)
(* request it served, the list its query returned and its reply.  The      *)
(* service goes on serving; the analysis of a given history ends with the  *)
(* report.                                                                 *)
(***************************************************************************)
\* get_current_user: the token names a row of the users table.  (A request
\* without one is answered 401 before any handler runs.)
Authenticated(user) == user \in DOMAIN users

\* A request is taken up once the reply of the one before has been handed
\* over (Respond).  The history, latest and insights handlers answer from one
\* query and the signup, profile and progress handlers from one commit, so
\* this orders nothing they leave unordered.
Accepting == request = NoRequest

\* get_prediction_trends has read the clock and has not sent its query yet.
TrendsPending == request.op = "trends" /\ reply = NoReply

\* The steps that move the clock or write a table a query reads (the steps of
\* submit_questionnaire, the passing of time) are taken between two requests
\* and also between the clock read and the query of get_prediction_trends.
Interleaving == Accepting \/ TrendsPending

\* The clock does not pass this day in the service.
MaxTime == 1

\* datetime.utcnow() advances: in the service up to MaxTime, and in the
\* analysis of a history by up to MaxTime days while the trends request waits
\* to send its query.
Tick ==
  /\ Interleaving
  /\ \/ pc = "serving" /\ now < MaxTime
     \/ pc = "history" /\ TrendsPending /\ now < request.utcnow + MaxTime
  /\ now' = now + 1
  /\ UNCHANGED <<pc, scorerVars, predictions, user_responses, users, user_progress, calls,
               request, fetched, reply>>

Served ==
  /\ Accepting
  /\ pc \in {"serving", "history"}
  /\ pc' = IF pc = "history" THEN "reported" ELSE pc

RowsWhere(table, user, start_date) ==
  {i \in 1..Len(table) : in_window(table[i], user, start_date)}

RowsOf(table, user) == {i \in 1..Len(table) : owned_by(table[i], user)}

\* GET /predictions/trends?days=  (days is any int of the query string), up
\* to line 86: the clock is read and the start of the window computed.  When
\* the start is no date the handler raises and the request ends here.
GetPredictionTrendsStart(user, days) ==
  /\ Authenticated(user)
  /\ Accepting
  /\ pc \in {"serving", "history"}
  /\ request' = [op |-> "trends", user |-> user, days |-> days, limit |-> 0,
                  utcnow |-> now]
  /\ fetched' = <<>>
  /\ IF start_date_overflows(now, days)
       THEN /\ reply' = ServerError
            /\ pc' = IF pc = "history" THEN "reported" ELSE pc
       ELSE /\ reply' = NoReply
            /\ pc' = pc
  /\ UNCHANGED <<scorerVars, predictions, user_responses, users, user_progress, now, calls>>

\* get_prediction_trends from line 88: the query, sent some time after the
\* clock was read, is answered from the table as it is now, and the report
\* is computed from the rows.
GetPredictionTrendsQuery ==
  /\ TrendsPending
  /\ pc \in {"serving", "history"}
  /\ pc' = IF pc = "history" THEN "reported" ELSE pc
  /\ LET start_date == request.utcnow - request.days
     IN \E rows \in AscendingOrders(predictions,
                                    RowsWhere(predictions, request.user, start_date)) :
          /\ fetched' = rows
          /\ reply' = get_prediction_trends(rows)
  /\ UNCHANGED <<request, scorerVars, predictions, user_responses, users, user_progress,
                 now, calls>>

\* GET /predictions/insights
GetPersonalizedInsights(user) ==
  /\ Authenticated(user)
  /\ Served
  /\ \E rows \in DescendingOrders(predictions, RowsOf(predictions, user)) :
       /\ fetched' = PyLimit(rows, InsightLimit)
       /\ reply' = get_personalized_insights(PyLimit(rows, InsightLimit))
  /\ request' = [op |-> "insights", user |-> user, days |-> 0, limit |-> InsightLimit]
  /\ UNCHANGED <<scorerVars, predictions, user_responses, users, user_progress, now, calls>>

(***************************************************************************)
(* The analysis of one user's history.  The table holds the predictions    *)
(* of questionnaires submitted on successive days; the clock stands one    *)
(* day past the last and may move while a trends request awaits its query. *)
(***************************************************************************)
\* A history has at most this many predictions ...
MaxHistory == 6
\* ... or InsightLimit and at most this many more.
MaxBeyondLimit == 1

\* Questionnaires scoring 20, 50, 60 and 80.
SampleQuestionnaires ==
  << [feel_sad |-> 3, feel_lonely |-> 3, feel_confident |-> 3, feel_stressed |-> 3,
      feel_happy |-> 3, feel_angry |-> 3, hours_sleep |-> 9 * Scale,
      minutes_physical_activity |-> 60, friends_count |-> 5, family_support |-> 5,
      school_belonging |-> 5, self_harm_ever |-> FALSE,
      self_harm_frequency |-> "Never", bullied_recently |-> FALSE,
      stress_level |-> 5, anxiety_level |-> 5],
     [feel_sad |-> 3, feel_lonely |-> 3, feel_confident |-> 3, feel_stressed |-> 4,
      feel_happy |-> 3, feel_angry |-> 3, hours_sleep |-> (13 * Scale) \div 2,
      minutes_physical_activity |-> 20, friends_count |-> 2, family_support |-> 2,
      school_belonging |-> 3, self_harm_ever |-> FALSE,
      self_harm_frequency |-> "Never", bullied_recently |-> FALSE,
      stress_level |-> 1, anxiety_level |-> 2],
     [feel_sad |-> 4, feel_lonely |-> 4, feel_confident |-> 2, feel_stressed |-> 4,
      feel_happy |-> 2, feel_angry |-> 2, hours_sleep |-> 5 * Scale,
      minutes_physical_activity |-> 20, friends_count |-> 3, family_support |-> 3,
      school_belonging |-> 4, self_harm_ever |-> FALSE,
      self_harm_frequency |-> "Never", bullied_recently |-> TRUE,
      stress_level |-> 3, anxiety_level |-> 4],
     [feel_sad |-> 4, feel_lonely |-> 4, feel_confident |-> 2, feel_stressed |-> 5,
      feel_happy |-> 2, feel_angry |-> 3, hours_sleep |-> 5 * Scale,
      minutes_physical_activity |-> 0, friends_count |-> 2, family_support |-> 2,
      school_belonging |-> 3, self_harm_ever |-> TRUE,
      self_harm_frequency |-> "Sometimes", bullied_recently |-> FALSE,
      stress_level |-> 1, anxiety_level |-> 2] >>

\* submit_questionnaire's computation on a questionnaire: the score, the
\* level, the factors and the recommendations.
Assessment(d) ==
  LET score == calculate_risk_score(d)
      level == classify(score)
      prediction == generate_prediction(score, level, d)
  IN [risk_score |-> score, risk_level |-> level,
      factors |-> prediction.factors,
      recommendations |-> prediction.recommendations]

SampleAssessments ==
  [q \in 1..Len(SampleQuestionnaires) |-> Assessment(SampleQuestionnaires[q])]

\* The table after user 1 submitted the questionnaires numbered qs[1], qs[2],
\* ... on days 1, 2, ...
HistoryOf(qs) ==
  [i \in 1..Len(qs) |->
     NewPrediction(i, 1, SampleAssessments[qs[i]].risk_level,
                   SampleAssessments[qs[i]].risk_score,
                   SampleAssessments[qs[i]].factors,
                   SampleAssessments[qs[i]].recommendations, i)]

\* A history beyond the insight limit: `old`, then three submissions of
\* questionnaire b, InsightLimit - 6 of c and three of d.
LongHistory(old, b, c, d) ==
  old \o [i \in 1..InsightLimit |->
            IF i <= 3 THEN b ELSE IF i <= InsightLimit - 3 THEN c ELSE d]

IdleScorer ==
  /\ data = EmptyDict
  /\ risk_score = 0
  /\ risk_level = ""
  /\ factors = <<>>
  /\ recommendations = <<>>
  /\ raw = EmptyDict
  /\ outcome = NoOutcome
  /\ outcome2 = NoOutcome

InitHistory ==
  /\ pc = "history"
  /\ IdleScorer
  /\ \/ \E n \in 0..MaxHistory :
          \E qs \in [1..n -> 1..Len(SampleQuestionnaires)] :
            predictions = HistoryOf(qs)
     \/ \E k \in 1..MaxBeyondLimit :
          \E old \in [1..k -> 1..Len(SampleQuestionnaires)] :
            \E b, c, d \in 1..Len(SampleQuestionnaires) :
              predictions = HistoryOf(LongHistory(old, b, c, d))
  /\ now = Len(predictions) + 1
  /\ user_responses = <<>>
  /\ users = RegisteredUsers
  /\ user_progress = <<>>
  /\ calls = <<>>
  /\ request = NoRequest
  /\ fetched = <<>>
  /\ reply = NoReply

NextHistory ==
  \/ \E days \in (0..now) \cup {800000} : GetPredictionTrendsStart(1, days)
  \/ GetPredictionTrendsQuery
  \/ Tick
  \/ GetPersonalizedInsights(1)

SpecHistory == InitHistory /\ [][NextHistory]_vars

(***************************************************************************)
(* The service: users sign up, submit questionnaires, read their history,  *)
(* latest prediction, trends and insights, and update their profile and    *)
(* progress, in any interleaving.  submit_questionnaire commits three      *)
(* times and then reads its response back; other requests are served       *)
(* between these steps.                                                    *)
(***************************************************************************)
\* At most this many submit_questionnaire calls are made.
MaxSubmissions == 2
\* At most this many progress entries are added.
MaxProgress == 1

\* The questionnaires submitted: the minimum-risk one, whose contributions
\* sum to -12, and the maximum-risk one, whose contributions sum to 129.
SubmittedQuestionnaires == {MinRiskData, MaxRiskData}

\* A nullable column: unset, or set to a value.
Unset == <<>>

\* Mutant: the assignment to the column lost.
SetTo_lost(x) == <<>>

SetTo(x) == <<x>>

\* UserResponse(user_id, questionnaire_data); risk_score and risk_level are
\* not given at construction.
NewUserResponse(id, user_id, d, at) ==
  [id |-> id, user_id |-> user_id, questionnaire_data |-> d,
   risk_score |-> Unset, risk_level |-> Unset, created_at |-> at]

\* UserProgress(user_id, mood_rating, notes)
NewUserProgress(id, user_id, mood_rating, notes, at) ==
  [id |-> id, user_id |-> user_id, date |-> at, risk_score |-> Unset,
   mood_rating |-> mood_rating, notes |-> notes]

\* Mutant: the insert lands on the latest row of the table.
insert_over_latest(table, row) ==
  IF Len(table) = 0 THEN <<row>> ELSE [table EXCEPT ![Len(table)] = row]

\* db.add(row); db.commit()
insert_row(table, row) == Append(table, row)

\* db.add(prediction_response); db.commit()
add_prediction(table, row) == insert_row(table, row)

\* Mutant: the questionnaire of the call that entered last.
call_input_of_latest(cs, c) == cs[Len(cs)].data

\* data.dict(): the questionnaire the call was given.
call_input(cs, c) == cs[c].data

\* The local `prediction` before generate_prediction has been called.
NoPrediction == [factors |-> <<>>, recommendations |-> <<>>]

\* submit_questionnaire, up to its first commit: the response is stored.
SubmitStoreResponse(user, d) ==
  /\ Authenticated(user)
  /\ Interleaving
  /\ pc = "serving"
  /\ Len(calls) < MaxSubmissions
  /\ LET id == Len(user_responses) + 1
     IN /\ user_responses' = insert_row(user_responses, NewUserResponse(id, user, d, now))
        /\ calls' = Append(calls, [user |-> user, data |-> d, pc |-> "stored",
                                   response_id |-> id, risk_score |-> 0,
                                   risk_level |-> "", prediction |-> NoPrediction,
                                   prediction_id |-> 0, result |-> NoReply])
  /\ UNCHANGED <<pc, scorerVars, predictions, users, user_progress, now,
               request, fetched, reply>>

\* submit_questionnaire, up to its second commit: the score and the level
\* are computed and written to the response.
SubmitScore(c) ==
  /\ Interleaving
  /\ pc = "serving"
  /\ c \in 1..Len(calls)
  /\ calls[c].pc = "stored"
  /\ LET score == calculate_risk_score(call_input(calls, c))
         level == classify(score)
     IN /\ user_responses' =
             [user_responses EXCEPT ![calls[c].response_id].risk_score = SetTo(score),
                                    ![calls[c].response_id].risk_level = SetTo(level)]
        /\ calls' = [calls EXCEPT ![c].pc = "scored",
                                  ![c].risk_score = score,
                                  ![c].risk_level = level]
  /\ UNCHANGED <<pc, scorerVars, predictions, users, user_progress, now,
               request, fetched, reply>>

\* submit_questionnaire, up to its third commit: the prediction is generated
\* and stored.  The handler has not returned yet, and the row is there for
\* every other request to read.
SubmitStorePrediction(c) ==
  /\ Interleaving
  /\ pc = "serving"
  /\ c \in 1..Len(calls)
  /\ calls[c].pc = "scored"
  /\ LET prediction == generate_prediction(calls[c].risk_score, calls[c].risk_level,
                                           call_input(calls, c))
         id == Len(predictions) + 1
     IN /\ predictions' =
             add_prediction(predictions,
                            NewPrediction(id, calls[c].user, calls[c].risk_level,
                                          calls[c].risk_score, prediction.factors,
                                          prediction.recommendations, now))
        /\ calls' = [calls EXCEPT ![c].pc = "committed",
                                  ![c].prediction = prediction,
                                  ![c].prediction_id = id]
  /\ UNCHANGED <<pc, scorerVars, user_responses, users, user_progress, now,
               request, fetched, reply>>

\* submit_questionnaire, its return: response.id, expired by the commit, is
\* read back from the user_responses table, and the result is built from it
\* and the locals.
SubmitReturn(c) ==
  /\ Interleaving
  /\ pc = "serving"
  /\ c \in 1..Len(calls)
  /\ calls[c].pc = "committed"
  /\ calls' = [calls EXCEPT
                 ![c].pc = "returned",
                 ![c].result =
                   [status |-> 200,
                    body |-> [response_id |-> user_responses[calls[c].response_id].id,
                              risk_score |-> calls[c].risk_score,
                              risk_level |-> calls[c].risk_level,
                              factors |-> calls[c].prediction.factors,
                              recommendations |-> calls[c].prediction.recommendations,
                              message |-> "Questionnaire submitted successfully"]]]
  /\ UNCHANGED <<pc, scorerVars, predictions, user_responses, users, user_progress, now,
               request, fetched, reply>>

\* submit_questionnaire ends after one of its commits: the next statement
\* sent to the database (a refresh, a commit, the read of response.id)
\* raises, or the worker dies.  Nothing is caught or rolled back, so what was
\* committed stays, the prediction included when the third commit was made,
\* and the client gets a server error.  (A call that fails before its first
\* commit leaves every table as it was.)
SubmitAbort(c) ==
  /\ Interleaving
  /\ pc = "serving"
  /\ c \in 1..Len(calls)
  /\ calls[c].pc \in {"stored", "scored", "committed"}
  /\ calls' = [calls EXCEPT ![c].pc = "aborted",
                            ![c].result = ServerError]
  /\ UNCHANGED <<pc, scorerVars, predictions, user_responses, users, user_progress, now,
               request, fetched, reply>>

\* PredictionResponse(...) of get_prediction_history and the dict of
\* get_latest_prediction; `p.factors or []` is p.factors for a list.
PredictionView(p) ==
  [id |-> p.id, risk_level |-> p.risk_level, risk_score |-> p.risk_score,
   factors |-> p.factors, recommendations |-> p.recommendations,
   created_at |-> p.created_at]

\* GET /predictions/history?limit=  (limit is any int of the query string).
\* The database is the deployment's; it shows in the reply to a negative
\* limit only, and is drawn there.
GetPredictionHistory(user, limit) ==
  /\ Authenticated(user)
  /\ Served
  /\ \E database \in Databases :
       IF limit_rejected(database, limit)
         THEN /\ fetched' = <<>>
              /\ reply' = ServerError
         ELSE \E rows \in DescendingOrders(predictions, RowsOf(predictions, user)) :
                /\ fetched' = PyLimit(rows, limit.v)
                /\ reply' = [status |-> 200,
                             body |-> [i \in 1..Len(PyLimit(rows, limit.v)) |->
                                         PredictionView(rows[i])]]
  /\ request' = [op |-> "history", user |-> user, days |-> 0, limit |-> limit.v,
                  wide |-> limit.wide]
  /\ UNCHANGED <<scorerVars, predictions, user_responses, users, user_progress, now, calls>>

\* GET /predictions/latest
GetLatestPrediction(user) ==
  /\ Authenticated(user)
  /\ Served
  /\ \E rows \in DescendingOrders(predictions, RowsOf(predictions, user)) :
       /\ fetched' = PyLimit(rows, 1)
       /\ reply' = IF Len(rows) = 0
                     THEN [status |-> 404,
                           body |-> [detail |-> "No predictions found. Please complete a questionnaire first."]]
                     ELSE [status |-> 200, body |-> PredictionView(rows[1])]
  /\ request' = [op |-> "latest", user |-> user, days |-> 0, limit |-> 1]
  /\ UNCHANGED <<scorerVars, predictions, user_responses, users, user_progress, now, calls>>

\* POST /api/auth/signup -> register_user.  A password of more than 72
\* bytes, or a username or an email already in the table, is refused; every
\* refusal, and any other exception, is answered 400 (its detail, which
\* names the cause, is not carried).  The refresh after the commit may
\* raise: the user is registered and the client is answered 400.
RegisterUser(username, email, password_bytes, full_name) ==
  /\ Accepting
  /\ pc = "serving"
  /\ IF \/ password_bytes > 72
        \/ \E u \in DOMAIN users :
             users[u].username = username \/ users[u].email = email
       THEN /\ users' = users
            /\ reply' = [status |-> 400]
       ELSE /\ Len(users) < MaxUsers
            /\ users' = insert_row(users, NewUser(username, email, full_name))
            /\ reply' \in {[status |-> 200,
                          body |-> [id |-> Len(users) + 1, username |-> username,
                                    email |-> email, full_name |-> full_name]],
                         [status |-> 400]}
  /\ request' = [op |-> "signup", user |-> 0, days |-> 0, limit |-> 0]
  /\ fetched' = <<>>
  /\ UNCHANGED <<pc, scorerVars, predictions, user_responses, user_progress, now, calls>>

\* PUT /users/profile?full_name=  (an empty name is falsy and changes
\* nothing).  The refresh after the commit may raise: the name is changed and
\* the client is answered a server error.
UpdateUserProfile(user, full_name) ==
  /\ Authenticated(user)
  /\ Accepting
  /\ pc = "serving"
  /\ users' = IF full_name # "" THEN [users EXCEPT ![user].full_name = full_name]
                                ELSE users
  /\ request' = [op |-> "profile", user |-> user, days |-> 0, limit |-> 0]
  /\ fetched' = <<>>
  /\ reply' \in {[status |-> 200, body |-> [message |-> "Profile updated successfully"]],
                ServerError}
  /\ UNCHANGED <<pc, scorerVars, predictions, user_responses, user_progress, now, calls>>

\* POST /users/progress.  The refresh after the commit may raise: the entry
\* is stored and the client is answered a server error.
AddProgress(user, mood_rating, notes) ==
  /\ Authenticated(user)
  /\ Accepting
  /\ pc = "serving"
  /\ Len(user_progress) < MaxProgress
  /\ LET id == Len(user_progress) + 1
     IN /\ user_progress' = insert_row(user_progress,
                                       NewUserProgress(id, user, mood_rating, notes, now))
        /\ reply' \in {[status |-> 200,
                      body |-> [message |-> "Progress added successfully",
                                id |-> id, date |-> now]],
                     ServerError}
  /\ request' = [op |-> "add_progress", user |-> user, days |-> 0, limit |-> 0]
  /\ fetched' = <<>>
  /\ UNCHANGED <<pc, scorerVars, predictions, user_responses, users, now, calls>>

\* The handler returns and the reply is handed to the client.
Respond ==
  /\ pc = "serving"
  /\ request # NoRequest
  /\ reply # NoReply
  /\ request' = NoRequest
  /\ fetched' = <<>>
  /\ reply' = NoReply
  /\ UNCHANGED <<pc, scorerVars, predictions, user_responses, users, user_progress,
                 now, calls>>

Init ==
  /\ pc = "serving"
  /\ IdleScorer
  /\ IdleService

\* The signups explored ask for the username and the email of an earlier
\* signup or for the next fresh ones, with a password of 8 or of 73 bytes.
\* The windows asked for are of -1 day, of 0..MaxTime days and of 800000
\* days (whose start is before year 1); the limits are -1, 1, 10 and ints
\* outside 64 bits of either sign.
Next ==
  \/ \E k, e \in 1..PyMin(Len(users) + 1, MaxUsers), password_bytes \in {8, 73} :
       RegisterUser(Username(k), Email(e), password_bytes, "Student")
  \/ \E user \in Users, d \in SubmittedQuestionnaires : SubmitStoreResponse(user, d)
  \/ \E c \in 1..MaxSubmissions : SubmitScore(c)
  \/ \E c \in 1..MaxSubmissions : SubmitStorePrediction(c)
  \/ \E c \in 1..MaxSubmissions : SubmitReturn(c)
  \/ \E c \in 1..MaxSubmissions : SubmitAbort(c)
  \/ \E user \in Users, days \in (-1..MaxTime) \cup {800000} :
       GetPredictionTrendsStart(user, days)
  \/ GetPredictionTrendsQuery
  \/ \E user \in Users : GetPersonalizedInsights(user)
  \/ \E user \in Users,
          limit \in {QueryInt(-1), QueryInt(1), QueryInt(10),
                     WideQueryInt(-1), WideQueryInt(1)} :
       GetPredictionHistory(user, limit)
  \/ \E user \in Users : GetLatestPrediction(user)
  \/ \E full_name \in {"", "Renamed"} : UpdateUserProfile(2, full_name)
  \/ AddProgress(1, 5, "")
  \/ Respond
  \/ Tick

Spec == Init /\ [][Next]_vars

(***************************************************************************)
(* Properties of the scorer, the classifier and the generator (SpecScore). *)
(***************************************************************************)
\* A feature record: every questionnaire field is present.
FullRecord(d) == \A i \in 1..Len(QuestionnaireFields) : QuestionnaireFields[i] \in DOMAIN d

\* The sum of contributions as the specification states it, before clamping.
StatedSum(d) ==
  (d.feel_sad + d.feel_lonely + d.feel_stressed + d.feel_angry
     - d.feel_confident - d.feel_happy) * 2
  + (CASE d.hours_sleep < 6 * Scale -> 15
       [] 6 * Scale <= d.hours_sleep /\ d.hours_sleep < 7 * Scale -> 10
       [] 7 * Scale <= d.hours_sleep /\ d.hours_sleep < 8 * Scale -> 5
       [] d.hours_sleep >= 8 * Scale -> 0)
  + (CASE d.minutes_physical_activity < 30 -> 10
       [] 30 <= d.minutes_physical_activity /\ d.minutes_physical_activity < 60 -> 5
       [] d.minutes_physical_activity >= 60 -> 0)
  + (CASE d.friends_count < 2 -> 10
       [] d.friends_count = 2 -> 5
       [] d.friends_count > 2 -> 0)
  + (IF d.family_support < 3 THEN 5 ELSE 0)
  + (CASE d.school_belonging < 3 -> 10
       [] d.school_belonging = 3 -> 5
       [] d.school_belonging > 3 -> 0)
  + (IF d.self_harm_ever THEN 15 ELSE 0)
  + (IF d.bullied_recently THEN 10 ELSE 0)
  + (d.stress_level - 1) + (d.anxiety_level - 1)

\* C1: the score calculate_risk_score returns is always within [0, 100].
C1_ScoreWithinBounds ==
  pc = "assessed" => 0 <= risk_score /\ risk_score <= 100

\* C1 witness: a record whose contributions sum to more than 100 was scored 100.
C1_Witness ==
  /\ pc = "assessed"
  /\ FullRecord(data)
  /\ StatedSum(data) > 100
  /\ risk_score = 100

\* C2: on a feature record the score is max(0, min(100, S)), S the stated sum
\* of the weighted contributions.
C2_ScoreIsClampedSum ==
  (pc = "assessed" /\ FullRecord(data)) =>
    risk_score = PyMax(0, PyMin(100, StatedSum(data)))

\* C2 witness: a record sleeping exactly 6 hours (the [6,7) bin) with two
\* friends and belonging 3 was scored, unclamped.
C2_Witness ==
  /\ pc = "assessed"
  /\ FullRecord(data)
  /\ data.hours_sleep = 6 * Scale
  /\ data.friends_count = 2
  /\ data.school_belonging = 3
  /\ risk_score = StatedSum(data)
  /\ risk_score > 0

LevelRank(level) == CASE level = "Low" -> 1 [] level = "Medium" -> 2 [] level = "High" -> 3

\* C3: the level is Low below 30, Medium from 30 to below 60, High from 60;
\* the classification is monotonic in the score, and 29, 30, 59, 60 fall on
\* the stated sides of the two boundaries.
C3_ClassifyBands ==
  pc = "assessed" =>
    /\ risk_level \in {"Low", "Medium", "High"}
    /\ (risk_level = "Low" <=> risk_score < 30)
    /\ (risk_level = "Medium" <=> (30 <= risk_score /\ risk_score < 60))
    /\ (risk_level = "High" <=> risk_score >= 60)
    /\ \A s \in 0..100 :
         /\ s <= risk_score => LevelRank(classify(s)) <= LevelRank(risk_level)
         /\ s >= risk_score => LevelRank(classify(s)) >= LevelRank(risk_level)
    /\ classify(29) = "Low"
    /\ classify(30) = "Medium"
    /\ classify(59) = "Medium"
    /\ classify(60) = "High"

\* C3 witness: a questionnaire scored exactly 30 was classified Medium.
C3_Witness ==
  pc = "assessed" /\ risk_score = 30 /\ risk_level = "Medium"

\* C4 (as claimed): the extreme example is clamped to 100.
C4_ExtremeIsClampedTo100 ==
  (pc = "assessed" /\ data = ExtremeData) => risk_score = 100

\* C4 (amended): the extreme example scores 77, the plain sum of its
\* contributions, so the upper clamp is not engaged; with the remaining fields
\* at their maximum-risk values as well the sum is 129 and the score is clamped
\* to 100.
C4_ExtremeScores77 ==
  /\ (pc = "assessed" /\ data = ExtremeData) =>
        (risk_score = 77 /\ StatedSum(data) = 77)
  /\ (pc = "assessed" /\ data = MaxRiskData) =>
        (risk_score = 100 /\ StatedSum(data) = 129)

\* C4 witness: the extreme example has been scored.
C4_Witness ==
  pc = "assessed" /\ data = ExtremeData /\ risk_level = "High"

\* C5: the minimum-risk record scores 0, and the score differs from
\* min(100, S) only when the sum S is below 0.
C5_FloorAtZero ==
  /\ (pc = "assessed" /\ data = MinRiskData) => risk_score = 0
  /\ (pc = "assessed" /\ FullRecord(data)
        /\ risk_score # PyMin(100, StatedSum(data))) => StatedSum(data) < 0

\* C5 witness: the minimum-risk record, whose sum is negative, was scored 0.
C5_Witness ==
  pc = "assessed" /\ data = MinRiskData /\ StatedSum(data) < 0 /\ risk_score = 0

\* The factor labels, in checklist order, and the predicate of each.
ChecklistLabels ==
  << "Poor sleep patterns", "Low physical activity", "Feelings of sadness",
     "High stress levels", "History of self-harm", "Recent bullying experience",
     "Limited family support" >>

ChecklistHolds(i, d) ==
  CASE i = 1 -> d.hours_sleep < 7 * Scale
    [] i = 2 -> d.minutes_physical_activity < 60
    [] i = 3 -> d.feel_sad >= 4
    [] i = 4 -> d.feel_stressed >= 4
    [] i = 5 -> d.self_harm_ever
    [] i = 6 -> d.bullied_recently
    [] i = 7 -> d.family_support < 3

LabelIndex(label) == CHOOSE i \in 1..Len(ChecklistLabels) : ChecklistLabels[i] = label

\* C10: the factor list holds exactly the labels of the true checklist
\* predicates, in checklist order, each once.
C10_FactorsMatchChecklist ==
  (pc = "assessed" /\ FullRecord(data)) =>
    /\ \A i \in 1..Len(ChecklistLabels) :
         ChecklistHolds(i, data) <=>
           \E j \in 1..Len(factors) : factors[j] = ChecklistLabels[i]
    /\ \A j \in 1..Len(factors) :
         \E i \in 1..Len(ChecklistLabels) : factors[j] = ChecklistLabels[i]
    /\ \A j1, j2 \in 1..Len(factors) :
         j1 < j2 => LabelIndex(factors[j1]) < LabelIndex(factors[j2])
    /\ Len(factors) =
         Cardinality({i \in 1..Len(ChecklistLabels) : ChecklistHolds(i, data)})

\* C10 witness: a record with feel_sad = 4 for which some but not all
\* predicates hold produced its factors.
C10_Witness ==
  /\ pc = "assessed"
  /\ FullRecord(data)
  /\ data.feel_sad = 4
  /\ Len(factors) >= 2
  /\ Len(factors) < Len(ChecklistLabels)

\* The pair of general recommendations of each level.
StatedGeneralPair(level) ==
  CASE level = "High" ->
         << "Consider scheduling an appointment with a mental health professional.",
            "Practice daily mindfulness or grounding exercises." >>
    [] level = "Medium" ->
         << "Regular exercise and healthy sleep can help improve your mental health.",
            "Try keeping a mood journal to track your emotions." >>
    [] level = "Low" ->
         << "Great job taking care of your mental health! Keep up the good work.",
            "Continue maintaining healthy habits and supporting others." >>

\* recs ends with the two general recommendations of `level` and has one
\* entry per factor, one more for self-harm, one more for bullying, and two.
EndsWithGeneralPair(recs, level, d, nfactors) ==
  /\ Len(recs) = nfactors + 2 + (IF d.self_harm_ever THEN 1 ELSE 0)
                              + (IF d.bullied_recently THEN 1 ELSE 0)
  /\ Len(recs) >= nfactors + 2
  /\ SubSeq(recs, Len(recs) - 1, Len(recs)) = StatedGeneralPair(level)

\* C11: the recommendations end with the two general recommendations of the
\* level, also when no factor was detected, and number factors + 2 + one extra
\* for self-harm + one extra for bullying; for the level of the score and for
\* every other level handed to generate_prediction.
C11_GeneralPairAppended ==
  (pc = "assessed" /\ FullRecord(data)) =>
    /\ EndsWithGeneralPair(recommendations, risk_level, data, Len(factors))
    /\ \A level \in {"Low", "Medium", "High"} :
         EndsWithGeneralPair(generate_prediction(risk_score, level, data).recommendations,
                             level, data, Len(factors))

\* C11 witness: a record with no factor detected got exactly the two general
\* recommendations.
C11_Witness ==
  /\ pc = "assessed"
  /\ FullRecord(data)
  /\ Len(factors) = 0
  /\ Len(recommendations) = 2

\* C19 (as claimed): every section's points stay within the budget its
\* comment announces.
C19_SectionBudgets ==
  (pc = "assessed" /\ FullRecord(data)) =>
    /\ 0 <= emotional_points(data) /\ emotional_points(data) <= 20
    /\ 0 <= sleep_points(data) /\ sleep_points(data) <= 15
    /\ 0 <= activity_points(data) /\ activity_points(data) <= 10
    /\ 0 <= social_points(data) /\ social_points(data) <= 15
    /\ 0 <= belonging_points(data) /\ belonging_points(data) <= 10
    /\ 0 <= self_harm_points(data) /\ self_harm_points(data) <= 15
    /\ 0 <= bullying_points(data) /\ bullying_points(data) <= 10
    /\ 0 <= data.stress_level - 1 /\ data.stress_level - 1 <= 5
    /\ 0 <= data.anxiety_level - 1 /\ data.anxiety_level - 1 <= 5

\* The sections other than the emotional one and stress/anxiety do stay
\* within their budgets.
OtherSectionBudgets ==
  (pc = "assessed" /\ FullRecord(data)) =>
    /\ 0 <= sleep_points(data) /\ sleep_points(data) <= 15
    /\ 0 <= activity_points(data) /\ activity_points(data) <= 10
    /\ 0 <= social_points(data) /\ social_points(data) <= 15
    /\ 0 <= belonging_points(data) /\ belonging_points(data) <= 10
    /\ 0 <= self_harm_points(data) /\ self_harm_points(data) <= 15
    /\ 0 <= bullying_points(data) /\ bullying_points(data) <= 10
    /\ -12 <= emotional_points(data) /\ emotional_points(data) <= 36
    /\ 0 <= stress_anxiety_points(data) /\ stress_anxiety_points(data) <= 18

(***************************************************************************)
(* Properties of the trend report (SpecHistory).                           *)
(***************************************************************************)
\* The trends request of the analysis has been answered.
TrendsReported == pc = "reported" /\ request.op = "trends"

\* The scores of the fetched list, in its order.
FetchedScores == [i \in 1..Len(fetched) |-> fetched[i].risk_score]

\* C12: get_prediction_trends over the in-window entries in ascending time
\* order never raises; with no entry it returns the no-data sentinel (the
\* message and an empty trends list); with exactly one entry the trend is
\* insufficient_data; with two or more it is improving iff the last score is
\* below the first, declining iff above, stable iff equal, and it is the
\* trend of the first and last entries alone, whatever lies between them.
C12_TrendDirection ==
  TrendsReported =>
    LET n == Len(fetched)
        first == FetchedScores[1]
        last == FetchedScores[n]
    IN /\ reply.status = 200
       /\ n = 0 => /\ DOMAIN reply.body = {"message", "trends"}
                   /\ reply.body.message = "No data available for the selected period"
                   /\ reply.body.trends = <<>>
       /\ n >= 1 => /\ "trend" \in DOMAIN reply.body
                    /\ reply.body.trend \in {"improving", "declining", "stable",
                                             "insufficient_data"}
                    /\ (reply.body.trend = "insufficient_data") <=> (n = 1)
       /\ n >= 2 => /\ (reply.body.trend = "improving") <=> (last < first)
                    /\ (reply.body.trend = "declining") <=> (last > first)
                    /\ (reply.body.trend = "stable") <=> (last = first)
                    /\ reply.body.trend =
                         get_prediction_trends(<<fetched[1], fetched[n]>>).body.trend

\* Three or more entries, the last above the first but below the one before
\* it, in a report whose query was sent a day after the clock was read.
C12_Witness ==
  /\ TrendsReported
  /\ now > request.utcnow
  /\ Len(fetched) >= 3
  /\ reply.body.trend = "declining"
  /\ FetchedScores[Len(fetched)] < FetchedScores[Len(fetched) - 1]

\* The trend report of every request whose window start is a date: the
\* sentinel, insufficient_data and the three directions as stated.
C12_TrendDirectionWhenAnswered ==
  (TrendsReported /\ ~start_date_overflows(request.utcnow, request.days)) =>
    LET n == Len(fetched)
        first == FetchedScores[1]
        last == FetchedScores[n]
    IN /\ reply.status = 200
       /\ n = 0 => reply.body = NoDataReport
       /\ n >= 1 => (reply.body.trend = "insufficient_data") <=> (n = 1)
       /\ n >= 2 => /\ (reply.body.trend = "improving") <=> (last < first)
                    /\ (reply.body.trend = "declining") <=> (last > first)
                    /\ (reply.body.trend = "stable") <=> (last = first)

\* A window whose start is no date: the handler raises and the client is
\* answered a server error, whatever the history.
C12_RaisesOnOverflow ==
  /\ TrendsReported
  /\ start_date_overflows(request.utcnow, request.days)
  /\ Len(predictions) >= 2
  /\ reply = ServerError

\* C18: for a non-empty in-window list of n entries, average_score is the
\* arithmetic mean of the scores rounded to 2 decimal places: in hundredths,
\* it differs from the exact mean 100 * sum / n by at most one half, that is
\* 2 * |n * average_score - 100 * sum| <= n; and total_predictions is n.
C18_AverageRounded ==
  (TrendsReported /\ Len(fetched) > 0) =>
    LET n == Len(fetched)
        total == PySum(FetchedScores)
        diff == n * reply.body.average_score - 100 * total
    IN /\ 2 * diff <= n
       /\ 2 * (0 - diff) <= n
       /\ reply.body.total_predictions = n

\* A mean that is not a whole number of hundredths and is rounded upwards,
\* in a report whose query was sent a day after the clock was read.
C18_Witness ==
  /\ TrendsReported
  /\ now > request.utcnow
  /\ Len(fetched) = 3
  /\ reply.body.average_score * 3 > 100 * PySum(FetchedScores)
  /\ reply.body.total_predictions = 3

(***************************************************************************)
(* Properties of the insight report (SpecHistory).                         *)
(***************************************************************************)
\* The insights request of the analysis has been answered.
InsightsReported == pc = "reported" /\ request.op = "insights"

\* The reply lists an insight of this type.
HasInsight(type) ==
  \E i \in 1..Len(reply.body.insights) : reply.body.insights[i].type = type

\* `sample` is the user's (at most) 30 most recent predictions of `table`,
\* most recent first.
IsMostRecentSample(sample, table, user) ==
  LET mine == {i \in 1..Len(table) : table[i].user_id = user}
      taken == {sample[k].id : k \in 1..Len(sample)}
  IN /\ Len(sample) = (IF Cardinality(mine) <= 30 THEN Cardinality(mine) ELSE 30)
     /\ taken \subseteq mine
     /\ Cardinality(taken) = Len(sample)
     /\ \A k \in 1..Len(sample) : sample[k] = table[sample[k].id]
     /\ \A k \in 1..(Len(sample) - 1) : sample[k].created_at >= sample[k + 1].created_at
     /\ \A i \in mine \ taken : \A k \in 1..Len(sample) :
          table[i].created_at <= sample[k].created_at

\* Three times the mean of the sample's scores at positions a..b.
ScoreSum(sample, a, b) == PySum([k \in 1..(b - a + 1) |-> sample[a + k - 1].risk_score])

\* C13: the sample is the subject's 30 most recent assessments, most recent
\* first, and the positive insight is emitted if and only if the sample has
\* at least 3 entries and the mean of its 3 most recent scores is at least 10
\* points lower than the mean of its 3 oldest (recent_mean <= older_mean - 10).
C13_PositiveIffTenLower ==
  InsightsReported =>
    LET n == Len(fetched)
    IN /\ IsMostRecentSample(fetched, predictions, request.user)
       /\ HasInsight("positive") <=>
            (n >= 3 /\ ScoreSum(fetched, 1, 3) <= ScoreSum(fetched, n - 2, n) - 30)

\* What does hold: the sample is as stated, and the positive insight is
\* emitted whenever the recent mean is more than 10 lower, never when it is
\* less than 10 lower, and never with fewer than 3 entries.
C13_PositiveOutsideTheBoundary ==
  InsightsReported =>
    LET n == Len(fetched)
    IN /\ IsMostRecentSample(fetched, predictions, request.user)
       /\ (n >= 3 /\ ScoreSum(fetched, 1, 3) < ScoreSum(fetched, n - 2, n) - 30)
            => HasInsight("positive")
       /\ HasInsight("positive")
            => (n >= 3 /\ ScoreSum(fetched, 1, 3) <= ScoreSum(fetched, n - 2, n) - 30)

\* The recent mean exactly 10 lower and no positive insight.
C13_BoundaryNotEmitted ==
  /\ InsightsReported
  /\ Len(fetched) >= 3
  /\ ScoreSum(fetched, 1, 3) = ScoreSum(fetched, Len(fetched) - 2, Len(fetched)) - 30
  /\ ~HasInsight("positive")

\* The recent mean exactly 10 lower and the positive insight emitted.
C13_BoundaryEmitted ==
  /\ InsightsReported
  /\ Len(fetched) >= 3
  /\ ScoreSum(fetched, 1, 3) = ScoreSum(fetched, Len(fetched) - 2, Len(fetched)) - 30
  /\ HasInsight("positive")

\* C14: the warning insight is emitted if and only if the number of High
\* entries of the sample strictly exceeds half the sample size, whatever the
\* other insights; it is emitted once and, when emitted, comes first.
C14_WarningIffHighMajority ==
  InsightsReported =>
    LET n == Len(fetched)
        high == Cardinality({k \in 1..n : fetched[k].risk_level = "High"})
        at == {i \in 1..Len(reply.body.insights) : reply.body.insights[i].type = "warning"}
    IN /\ HasInsight("warning") <=> (2 * high > n)
       /\ at \subseteq {1}

\* 4 High of 6: the warning comes first, another insight after it.
C14_Witness ==
  /\ InsightsReported
  /\ Len(fetched) = 6
  /\ Cardinality({k \in 1..6 : fetched[k].risk_level = "High"}) = 4
  /\ Len(reply.body.insights) >= 2
  /\ reply.body.insights[1].type = "warning"

\* 3 High of 6: no warning, whatever else is emitted.
C14_HalfIsNotEnough ==
  /\ InsightsReported
  /\ Len(fetched) = 6
  /\ Cardinality({k \in 1..6 : fetched[k].risk_level = "High"}) = 3
  /\ ~HasInsight("warning")
  /\ HasInsight("info")

\* The factor strings of the sample.
SampledFactors ==
  UNION {{fetched[k].factors[j] : j \in 1..Len(fetched[k].factors)} : k \in 1..Len(fetched)}

\* The number of occurrences of x over all sampled factor lists.
Occurrences(x) ==
  PySum([k \in 1..Len(fetched) |->
           Cardinality({j \in 1..Len(fetched[k].factors) : fetched[k].factors[j] = x})])

\* Where x is first met when the sample is scanned most recent first.
FirstRow(x) ==
  CHOOSE k \in 1..Len(fetched) :
    /\ \E j \in 1..Len(fetched[k].factors) : fetched[k].factors[j] = x
    /\ \A h \in 1..(k - 1) : \A j \in 1..Len(fetched[h].factors) : fetched[h].factors[j] # x

FirstPlace(x) ==
  CHOOSE j \in 1..Len(fetched[FirstRow(x)].factors) :
    /\ fetched[FirstRow(x)].factors[j] = x
    /\ \A h \in 1..(j - 1) : fetched[FirstRow(x)].factors[h] # x

\* x ranks before y: more occurrences, or as many and met first.
RanksBefore(x, y) ==
  \/ Occurrences(x) > Occurrences(y)
  \/ /\ Occurrences(x) = Occurrences(y)
     /\ \/ FirstRow(x) < FirstRow(y)
        \/ FirstRow(x) = FirstRow(y) /\ FirstPlace(x) < FirstPlace(y)

\* `top` lists the (up to) 3 highest-ranking factor strings, in rank order.
IsTopThree(top) ==
  /\ Len(top) = (IF Cardinality(SampledFactors) <= 3 THEN Cardinality(SampledFactors) ELSE 3)
  /\ \A i \in 1..Len(top) : top[i] \in SampledFactors
  /\ \A i, j \in 1..Len(top) : i < j => RanksBefore(top[i], top[j])
  /\ \A x \in SampledFactors :
       (\A i \in 1..Len(top) : top[i] # x) => \A i \in 1..Len(top) : RanksBefore(top[i], x)

\* C15: the info insight is emitted iff at least one sampled assessment has
\* a non-empty factor list, once and after the other insights, and it lists
\* the (up to) 3 factor strings of highest occurrence count over all sampled
\* factor lists, in descending count, ties in favour of the factor met first
\* when the sample is scanned most recent first.
C15_InfoListsTopFactors ==
  InsightsReported =>
    LET at == {i \in 1..Len(reply.body.insights) : reply.body.insights[i].type = "info"}
    IN /\ HasInsight("info") <=> (SampledFactors # {})
       /\ at \subseteq {Len(reply.body.insights)}
       /\ HasInsight("info") =>
            \E top \in UNION {[1..m -> SampledFactors] : m \in 1..3} :
              /\ IsTopThree(top)
              /\ reply.body.insights[Len(reply.body.insights)].message
                   = "Most common factors: " \o PyJoin(", ", top)

\* More than 3 factor strings sampled, two of the listed ones with the same
\* count, and the most recent assessment does not hold all the listed ones.
C15_Witness ==
  /\ InsightsReported
  /\ HasInsight("info")
  /\ Cardinality(SampledFactors) > 3
  /\ \E x, y \in SampledFactors :
       /\ x # y
       /\ Occurrences(x) = Occurrences(y)
       /\ RanksBefore(x, y)
       /\ \E z \in SampledFactors : RanksBefore(y, z) /\ Occurrences(y) > Occurrences(z)
       /\ \A z \in SampledFactors : RanksBefore(z, y) => z = x
  /\ Len(fetched[1].factors) = 0

\* The positions of a sample of n entries that lie both among its 3 most
\* recent and among its 3 oldest.
SharedPositions(n) == {k \in 1..n : k <= 3 /\ k >= n - 2}

\* The sample with the assessments at its shared positions replaced by those
\* of the questionnaires alt names.
WithShared(sample, alt) ==
  [k \in 1..Len(sample) |->
     IF k \in DOMAIN alt
       THEN NewPrediction(sample[k].id, sample[k].user_id,
                          SampleAssessments[alt[k]].risk_level,
                          SampleAssessments[alt[k]].risk_score,
                          SampleAssessments[alt[k]].factors,
                          SampleAssessments[alt[k]].recommendations,
                          sample[k].created_at)
       ELSE sample[k]]

\* The report lists the positive insight.
ListsPositive(body) ==
  \E i \in 1..Len(body.insights) : body.insights[i].type = "positive"

\* C23: with exactly 3 entries in the sample the 3 most recent and the 3
\* oldest are the same entries and the positive insight is never emitted;
\* with 3 to 5 entries the entries the two windows share cancel in the
\* comparison, so that the positive insight is the same whatever assessments
\* stand at the shared positions.
C23_OverlapCancels ==
  (InsightsReported /\ Len(fetched) \in 3..5) =>
    /\ Len(fetched) = 3 => ~HasInsight("positive")
    /\ \A alt \in [SharedPositions(Len(fetched)) -> 1..Len(SampleAssessments)] :
         ListsPositive(get_personalized_insights(WithShared(fetched, alt)).body)
           <=> HasInsight("positive")

\* What does hold: no positive insight with exactly 3 entries; and with 4 or
\* 5 entries the insight is emitted when the scores outside the overlap put
\* the recent mean more than 10 lower, and not when less than 10 lower.
C23_OverlapCancelsOffTheBoundary ==
  (InsightsReported /\ Len(fetched) \in 3..5) =>
    LET n == Len(fetched)
        recent == ScoreSum(fetched, 1, n - 3)
        older == ScoreSum(fetched, 4, n)
    IN /\ n = 3 => ~HasInsight("positive")
       /\ recent < older - 30 => HasInsight("positive")
       /\ recent > older - 30 => ~HasInsight("positive")

\* Most recent first 50, 60, 60, 80: the positive insight is emitted, though
\* it is not with 20, 20 at the shared positions.
C23_SharedEntriesDecide ==
  /\ InsightsReported
  /\ Len(fetched) = 4
  /\ [k \in 1..4 |-> fetched[k].risk_score] = <<50, 60, 60, 80>>
  /\ HasInsight("positive")
  /\ ~ListsPositive(get_personalized_insights(
                      WithShared(fetched, [k \in {2, 3} |-> 1])).body)

(***************************************************************************)
(* Properties of the service (Spec).                                       *)
(***************************************************************************)
\* The call returns in this step.
ReturnsNow(c) ==
  /\ c \in 1..Len(calls')
  /\ calls'[c].pc = "returned"
  /\ c > Len(calls) \/ calls[c].pc # "returned"

\* The call makes its third commit in this step.
StoresPredictionNow(c) ==
  /\ c \in 1..Len(calls)
  /\ calls[c].prediction_id = 0
  /\ calls'[c].prediction_id # 0

\* C16: each completed submit_questionnaire call creates exactly one
\* Prediction record, owned by the submitting user, and no step of the
\* system (a commit of any submission, a history, latest, trends or insights
\* read, a signup, a profile or progress operation, the passing of time)
\* changes or removes an existing record: its risk_score, risk_level,
\* factors, recommendations, created_at and owner stay as created.  A record
\* is added by a call's third commit and by nothing else, at most once per
\* call, and a call that returns has made that commit.
C16_PredictionsCreatedOnceAndImmutable ==
  [][/\ Len(predictions') >= Len(predictions)
     /\ Len(predictions') <= Len(predictions) + 1
     /\ \A i \in 1..Len(predictions) : predictions'[i] = predictions[i]
     /\ (Len(predictions') = Len(predictions) + 1)
          <=> (\E c \in 1..Len(calls) : StoresPredictionNow(c))
     /\ \A c, e \in 1..Len(calls) :
          (StoresPredictionNow(c) /\ StoresPredictionNow(e)) => c = e
     /\ \A c \in 1..Len(calls) :
          /\ StoresPredictionNow(c) =>
               /\ calls'[c].prediction_id = Len(predictions')
               /\ predictions'[Len(predictions')].id = Len(predictions')
               /\ predictions'[Len(predictions')].user_id = calls'[c].user
          /\ calls[c].prediction_id # 0 =>
               calls'[c].prediction_id = calls[c].prediction_id
          /\ ReturnsNow(c) =>
               /\ calls[c].prediction_id \in 1..Len(predictions)
               /\ predictions[calls[c].prediction_id].user_id = calls[c].user
               /\ \A e \in 1..Len(calls) \ {c} :
                    calls[e].prediction_id # calls[c].prediction_id
    ]_vars

\* Two users' submissions completed, then a profile update, a progress
\* entry and an insights read.
C16_Witness ==
  /\ Len(predictions) = 2
  /\ predictions[1].user_id # predictions[2].user_id
  /\ \A c \in 1..Len(calls) : calls[c].pc = "returned"
  /\ users[2].full_name = "Renamed"
  /\ Len(user_progress) = 1
  /\ request.op = "insights"

\* C17: under any interleaving of submit_questionnaire calls, of the same or
\* of different users, what each call computes, stores and returns (the
\* risk_score, the risk_level, the factors and the recommendations) is what a
\* call running alone produces from that call's own questionnaire; a call
\* that fails after a commit leaves what it had stored by then, computed the
\* same way.
C17_CallsComputeFromOwnInput ==
  \A c \in 1..Len(calls) :
    LET alone == Assessment(calls[c].data)
        response == user_responses[calls[c].response_id]
    IN /\ response.user_id = calls[c].user
       /\ response.questionnaire_data = calls[c].data
       /\ calls[c].pc = "stored" =>
            response.risk_score = Unset /\ response.risk_level = Unset
       /\ calls[c].pc \in {"scored", "committed", "returned"} =>
            /\ calls[c].risk_score = alone.risk_score
            /\ calls[c].risk_level = alone.risk_level
            /\ response.risk_score = SetTo(alone.risk_score)
            /\ response.risk_level = SetTo(alone.risk_level)
       /\ calls[c].pc = "aborted" =>
            /\ response.risk_score \in {Unset, SetTo(alone.risk_score)}
            /\ response.risk_level \in {Unset, SetTo(alone.risk_level)}
            /\ calls[c].result = ServerError
       /\ (calls[c].pc \in {"committed", "returned"}) <=> (calls[c].prediction_id # 0
                                                          /\ calls[c].pc # "aborted")
       /\ calls[c].prediction_id # 0 =>
            LET p == predictions[calls[c].prediction_id]
            IN /\ p.user_id = calls[c].user
               /\ p.risk_score = alone.risk_score
               /\ p.risk_level = alone.risk_level
               /\ p.factors = alone.factors
               /\ p.recommendations = alone.recommendations
       /\ calls[c].pc = "returned" =>
               /\ calls[c].result.status = 200
               /\ calls[c].result.body.risk_score = alone.risk_score
               /\ calls[c].result.body.risk_level = alone.risk_level
               /\ calls[c].result.body.factors = alone.factors
               /\ calls[c].result.body.recommendations = alone.recommendations

\* Two calls with different questionnaires, the second entered before the
\* first was scored and returned before it.
C17_Witness ==
  /\ Len(calls) = 2
  /\ calls[1].data # calls[2].data
  /\ calls[1].pc = "returned"
  /\ calls[2].pc = "returned"
  /\ calls[1].prediction_id = 2
  /\ calls[2].prediction_id = 1

\* The replies get_prediction_trends may give the user when the table is
\* `table` and the clock reads `time`.
TrendsReplies(table, time, user, days) ==
  IF start_date_overflows(time, days) THEN {ServerError}
  ELSE {get_prediction_trends(rows) :
          rows \in AscendingOrders(table, RowsWhere(table, user, time - days))}

\* The replies get_personalized_insights may give the user when the table
\* is `table`.
InsightsReplies(table, user) ==
  {get_personalized_insights(PyLimit(rows, InsightLimit)) :
     rows \in DescendingOrders(table, RowsOf(table, user))}

\* A trends request is answered in this step: by its query, or by the error
\* of its clock step.
TrendsStep ==
  /\ request'.op = "trends"
  /\ reply = NoReply
  /\ reply' # NoReply
  /\ UNCHANGED <<predictions, user_responses, users, user_progress, now, calls>>

\* A commit of a submission of this user is made in this step.
SubmitStepOf(user) ==
  \E c \in 1..Len(calls') :
    /\ calls'[c].user = user
    /\ c > Len(calls) \/ calls'[c] # calls[c]

\* The data points a reply carries: none in the no-data report and none in
\* an error reply.
ReturnedDataPoints(r) ==
  IF "body" \in DOMAIN r /\ "data_points" \in DOMAIN r.body
    THEN r.body.data_points
    ELSE <<>>

\* C20: after any sequence of submissions, get_prediction_trends(days) for
\* user U returns as data_points exactly U's predictions with
\* created_at >= now - days (one exactly at the bound included), each once,
\* in ascending created_at order, and none of another user; and a commit of
\* another user's submission changes no trend and no insight output of U.
\* Here `now` is the clock as the handler read it, and the predictions are
\* those in the table when its query is answered.
C20_TrendsAreTheUsersWindow ==
  [][/\ TrendsStep =>
          LET U == request'.user
              mine == {i \in 1..Len(predictions) :
                         /\ predictions[i].user_id = U
                         /\ predictions[i].created_at >= request'.utcnow - request'.days}
          IN /\ Len(fetched') = Cardinality(mine)
             /\ {fetched'[k].id : k \in 1..Len(fetched')} = mine
             /\ \A k \in 1..Len(fetched') : fetched'[k] = predictions[fetched'[k].id]
             /\ \A k \in 1..(Len(fetched') - 1) :
                  fetched'[k].created_at <= fetched'[k + 1].created_at
             /\ Len(ReturnedDataPoints(reply')) = Len(fetched')
             /\ \A k \in 1..Len(fetched') :
                  ReturnedDataPoints(reply')[k] =
                    [date |-> fetched'[k].created_at,
                     score |-> fetched'[k].risk_score,
                     level |-> fetched'[k].risk_level]
     /\ \A V \in Users :
          SubmitStepOf(V) =>
            \A U \in Users \ {V} :
              /\ InsightsReplies(predictions', U) = InsightsReplies(predictions, U)
              /\ \A days \in 0..MaxTime :
                   TrendsReplies(predictions', now', U, days)
                     = TrendsReplies(predictions, now, U, days)
    ]_vars

\* The data points of every trends request whose window start is a date, and
\* the independence of a user's outputs from the other users' submissions.
C20_TrendsAreTheUsersWindowWhenAnswered ==
  [][/\ (TrendsStep /\ ~start_date_overflows(request'.utcnow, request'.days)) =>
          LET U == request'.user
              mine == {i \in 1..Len(predictions) :
                         /\ predictions[i].user_id = U
                         /\ predictions[i].created_at >= request'.utcnow - request'.days}
          IN /\ reply'.status = 200
             /\ Len(fetched') = Cardinality(mine)
             /\ {fetched'[k].id : k \in 1..Len(fetched')} = mine
             /\ \A k \in 1..(Len(fetched') - 1) :
                  fetched'[k].created_at <= fetched'[k + 1].created_at
             /\ IF mine = {}
                  THEN "data_points" \notin DOMAIN reply'.body
                  ELSE reply'.body.data_points =
                         [k \in 1..Len(fetched') |-> DataPoint(predictions[fetched'[k].id])]
     /\ \A V \in Users :
          SubmitStepOf(V) =>
            \A U \in Users \ {V} :
              /\ InsightsReplies(predictions', U) = InsightsReplies(predictions, U)
              /\ \A days \in (0..MaxTime) \cup {800000} :
                   TrendsReplies(predictions', now', U, days)
                     = TrendsReplies(predictions, now, U, days)
    ]_vars

\* A user with predictions asks for a window whose start is no date and is
\* answered a server error and no data point.
C20_NoDataPointsOnOverflow ==
  /\ request.op = "trends"
  /\ start_date_overflows(request.utcnow, request.days)
  /\ \E i \in 1..Len(predictions) : predictions[i].user_id = request.user
  /\ reply = ServerError

\* The clock read on day 0 for a window of 0 days; then the day passes and a
\* second submission of the user commits its prediction before the query is
\* sent: the reply carries both, the one of day 0 and the one of day 1.
C20_RowsCommittedAfterTheClockRead ==
  /\ request.op = "trends"
  /\ request.days = 0
  /\ request.utcnow = 0
  /\ now = 1
  /\ Len(fetched) = 2
  /\ fetched[1].created_at = 0
  /\ fetched[2].created_at = 1
  /\ reply.status = 200
  /\ reply.body.total_predictions = 2

\* The trends of a user whose only in-window prediction lies exactly at the
\* lower bound, while a prediction of another user lies in the window too.
C20_Witness ==
  /\ request.op = "trends"
  /\ Len(predictions) = 2
  /\ predictions[1].user_id # predictions[2].user_id
  /\ Len(fetched) = 1
  /\ fetched[1].user_id = request.user
  /\ fetched[1].created_at = request.utcnow - request.days
  /\ \A i \in 1..2 : predictions[i].created_at >= request.utcnow - request.days
  /\ reply.status = 200
  /\ "data_points" \in DOMAIN reply.body
  /\ Len(reply.body.data_points) = 1

\* The level the stated bands give a score.
StatedLevel(score) ==
  CASE score < 30 -> "Low"
    [] score >= 30 /\ score < 60 -> "Medium"
    [] score >= 60 -> "High"

\* C21: in every state reachable by submit_questionnaire calls, every stored
\* Prediction has 0 <= risk_score <= 100 and the risk_level of its score's
\* band (Low, Medium or High); and in every insight summary given,
\* high_risk_count + medium_risk_count + low_risk_count = total_assessments.
C21_StoredPredictionsWellFormed ==
  /\ \A i \in 1..Len(predictions) :
       /\ predictions[i].risk_score >= 0
       /\ predictions[i].risk_score <= 100
       /\ predictions[i].risk_level \in {"Low", "Medium", "High"}
       /\ predictions[i].risk_level = StatedLevel(predictions[i].risk_score)
  /\ (request.op = "insights" /\ "summary" \in DOMAIN reply.body) =>
       /\ reply.body.summary.high_risk_count + reply.body.summary.medium_risk_count
            + reply.body.summary.low_risk_count = reply.body.summary.total_assessments
       /\ reply.body.summary.total_assessments = Len(fetched)

\* One user's two predictions, the sums -12 and 129 stored as 0 and 100, and
\* the user's insight summary over both.
C21_Witness ==
  /\ Len(predictions) = 2
  /\ predictions[1].user_id = predictions[2].user_id
  /\ predictions[1].risk_score = 0
  /\ predictions[2].risk_score = 100
  /\ request.op = "insights"
  /\ request.user = predictions[1].user_id
  /\ "summary" \in DOMAIN reply.body
  /\ reply.body.summary.total_assessments = 2
  /\ reply.body.summary.high_risk_count = 1
  /\ reply.body.summary.low_risk_count = 1

\* The rows of the table owned by the user.
OwnedRows(table, user) == {i \in 1..Len(table) : table[i].user_id = user}

\* C22: submit_questionnaire commits three times (the response, its score
\* and level, the prediction), so in every reachable state, between the
\* commits of interleaved or aborted submissions too, each user has at most
\* as many Predictions as UserResponses, indeed at most as many as scored
\* UserResponses; a UserResponse has its risk_score and risk_level both
\* unset or both set; and the UserResponse and the Prediction of a submission
\* that has made its third commit (whether it then returns or fails) carry
\* the same risk_score and risk_level.
C22_ResponseBeforePrediction ==
  /\ \A user \in Users :
       /\ Cardinality(OwnedRows(predictions, user))
            <= Cardinality(OwnedRows(user_responses, user))
       /\ Cardinality(OwnedRows(predictions, user))
            <= Cardinality({i \in OwnedRows(user_responses, user) :
                              user_responses[i].risk_score # <<>>})
  /\ \A i \in 1..Len(user_responses) :
       (user_responses[i].risk_score = <<>>) <=> (user_responses[i].risk_level = <<>>)
  /\ \A c \in 1..Len(calls) :
       calls[c].prediction_id # 0 =>
         /\ calls[c].response_id \in 1..Len(user_responses)
         /\ calls[c].prediction_id \in 1..Len(predictions)
         /\ user_responses[calls[c].response_id].risk_score
              = <<predictions[calls[c].prediction_id].risk_score>>
         /\ user_responses[calls[c].response_id].risk_level
              = <<predictions[calls[c].prediction_id].risk_level>>
         /\ user_responses[calls[c].response_id].user_id
              = predictions[calls[c].prediction_id].user_id

\* A user's first submission aborted after its first commit, its response
\* left with score and level unset, while the same user's second submission
\* completed and the user's history is read: two responses, one prediction.
C22_Witness ==
  /\ Len(calls) = 2
  /\ calls[1].user = calls[2].user
  /\ calls[1].pc = "aborted"
  /\ user_responses[calls[1].response_id].risk_score = <<>>
  /\ user_responses[calls[1].response_id].risk_level = <<>>
  /\ calls[2].pc = "returned"
  /\ Cardinality(OwnedRows(predictions, calls[1].user)) = 1
  /\ Cardinality(OwnedRows(user_responses, calls[1].user)) = 2
  /\ request.op = "history"
  /\ request.user = calls[1].user
  /\ Len(fetched) = 1

(***************************************************************************)
(* Properties of prepare_features (SpecNormalize).                         *)
(***************************************************************************)
\* The domain default of each feature, as the float prepare_features would
\* store (in units of 1/Scale).
DomainDefault(k) ==
  CASE k \in {"feel_sad", "feel_lonely", "feel_confident", "feel_stressed",
              "feel_happy", "feel_angry", "stress_level", "anxiety_level"} -> 1 * Scale
    [] k = "hours_sleep" -> 8 * Scale
    [] k \in {"friends_count", "family_support", "school_belonging"} -> 3 * Scale
    [] k \in {"minutes_physical_activity", "self_harm_ever", "bullied_recently"} -> 0

\* C6 (as claimed): the feature of an absent key is the field's domain default.
C6_AbsentKeyGetsDomainDefault ==
  (pc = "prepared" /\ ~outcome.raised) =>
    \A i \in 1..Len(feature_names) :
      feature_names[i] \notin DOMAIN raw =>
        outcome.array[1][i] = DomainDefault(feature_names[i])

\* s matches the token t: the same characters, letter case ignored.
MatchesToken(s, t) ==
  /\ Len(s) = Len(t)
  /\ \A i \in 1..Len(t) : s[i] = t[i] \/ s[i] + 32 = t[i]

\* The three-tier bucket as the specification states it.
StatedBucket(s) ==
  IF \E t \in {Str_never, Str_no, Str_false} : MatchesToken(s, t) THEN 0
  ELSE IF \E t \in {Str_rarely, Str_sometimes} : MatchesToken(s, t) THEN 1
  ELSE IF \E t \in {Str_often, Str_yes, Str_true} : MatchesToken(s, t) THEN 2
  ELSE 0

\* C7: a string becomes its bucket (0, 1, 2; 0 for any other string), a
\* boolean becomes 0 or 1, and a number is stored unchanged.
C7_CoercionTable ==
  (pc = "prepared" /\ ~outcome.raised) =>
    \A i \in 1..Len(feature_names) :
      feature_names[i] \in DOMAIN raw =>
        LET value == raw[feature_names[i]]
            stored == outcome.array[1][i]
        IN /\ value.tag = "str" => stored = StatedBucket(value.v) * Scale
           /\ value.tag = "bool" => stored = (IF value.v THEN 1 ELSE 0) * Scale
           /\ value.tag = "int" => stored = value.v * Scale
           /\ value.tag = "float" => stored = value.v

\* C7 witness: a raw dict holding "YES", "Sometimes", "Never", "maybe", a
\* boolean, an int and a float was prepared.
C7_Witness ==
  /\ pc = "prepared"
  /\ ~outcome.raised
  /\ raw = RawMixed
  /\ outcome.array[1][3] = 2 * Scale
  /\ outcome.array[1][5] = 1 * Scale
  /\ outcome.array[1][6] = 0
  /\ outcome.array[1][12] = 1 * Scale

\* C8 (as claimed): prepare_features never raises, returns a complete vector,
\* and stores the field default for a value of an unrecognized shape.
C8_NeverRaises ==
  pc = "prepared" =>
    /\ ~outcome.raised
    /\ Len(outcome.array) = 1
    /\ Len(outcome.array[1]) = Len(feature_names)
    /\ \A i \in 1..Len(feature_names) :
         (feature_names[i] \in DOMAIN raw
            /\ raw[feature_names[i]].tag \in {"none", "list"}) =>
           outcome.array[1][i] = DomainDefault(feature_names[i])

\* The output of prepare_features as a raw map: feature name -> normalized
\* value.
AsRawDict(array) ==
  [k \in {feature_names[i] : i \in 1..Len(feature_names)} |->
     PyFloat(array[1][CHOOSE i \in 1..Len(feature_names) : feature_names[i] = k])]

\* C9: for every raw map on which prepare_features returns, its output fed
\* back in as a raw map (field name -> normalized value) is prepared to the
\* same output: normalize(normalize(raw)) = normalize(raw).
C9_Idempotent ==
  (pc \in {"prepared", "reprepared"} /\ ~outcome.raised) =>
    prepare_features(AsRawDict(outcome.array)) = outcome

\* C9 witness: a raw dict of strings, booleans and numbers was prepared; its
\* output differs from it as a raw map, and prepared again it is unchanged.
C9_Witness ==
  /\ pc = "prepared"
  /\ raw = RawMixed
  /\ ~outcome.raised
  /\ AsRawDict(outcome.array) # raw
  /\ prepare_features(AsRawDict(outcome.array)).array = outcome.array

\* The output itself, an array, is no raw map: handed back as it is, it
\* makes prepare_features raise.
C9_ArrayItselfRaises ==
  pc = "reprepared" => (outcome2.raised /\ outcome2.exc = "AttributeError")

============================================================================
